---- MODULE Spec2Model ----
(***************************************************************************)
(* Model of the document chunking pipeline of idm-ingestion                *)
(* (src/chunking/chunkers/doc_analysis_chunker.py).                        *)
(*                                                                         *)
(* Texts are TLA+ strings, handled character by character with Len,        *)
(* SubSeq and \o, so substring search, first-occurrence replacement, the   *)
(* regular expressions and slicing are computed the way Python computes    *)
(* them.                                                                   *)
(***************************************************************************)
EXTENDS Integers, Sequences, FiniteSets, TLC

VARIABLES
    pc,                        \* position of the operation under way
    document,                  \* get_chunks: the document dictionary
    table_html_table_url_map,  \* get_chunks: mapping items built by the mapper
    chunk_parts,               \* the pieces the chunk text was drawn from
    text_chunk,                \* chunk handed to _restore_tables_from_markers
    url_to_content_mapping,    \* url -> content; a set of <<url, content>> pairs
    restored_text_chunk,       \* result of the restore: [raised, value]
    text,                      \* _truncate_chunk: the text being truncated
    max_chunk_size,            \* self.max_chunk_size, the token budget
    page_breaks,               \* _truncate_chunk: markers of the normalized text
    step_size,                 \* _truncate_chunk: characters cut per iteration
    iteration,                 \* _truncate_chunk: iterations of the shrink loop
    page_break_index,          \* _truncate_chunk: position in `for page_break in`
    needed_size,               \* _truncate_chunk: tokens of the marker to append
    content_parts,             \* the pieces the document content was drawn from
    document_content,          \* _process_document_chunks: document_content
    chunk_id,                  \* _process_document_chunks: chunk_id
    current_page,              \* _process_document_chunks: current_page
    chunk_page,                \* _process_document_chunks: chunk_page
    text_chunks,               \* _process_document_chunks: segments of the splitter
    chunks,                    \* _process_document_chunks: chunks emitted so far
    ocr,                       \* ContentUnderstandingService.process: the OCR table
    grid,                      \* process: grid, indexed from 0 as in the source
    header_rows,               \* process: header_rows
    header_hierarchy,          \* process: header_hierarchy
    markdown,                  \* process: markdown
    schema,                    \* process: schema, the list under "columns"
    html_parts,                \* the pieces the HTML table was put together from
    html_table,                \* _is_table_complex: html_table
    is_complex,                \* _is_table_complex: the value returned
    table_mapping,             \* _run_table_understanding: mapping as passed in
    enriched,                  \* _run_table_understanding: enriched
    failures,                  \* per table: the step that failed, "none", "skipped"
    current_content,           \* _replace_html_tables_with_url: modified_content
    replace_index,             \* _replace_html_tables_with_url: items still to visit
    csv_bytes,                 \* process: the text of csv_bytes
    summary,                   \* process: summary
    completion,                \* what the completion call did: "not_called", "returned", "raised"
    retries,                   \* _analyze_document_with_retry: retries
    attempts,                  \* the outcomes of the calls of analyze_document so far
    analysis,                  \* what _analyze_document_with_retry returned or raised
    blob_call,                 \* BlobStorageClient: the operation called and its arguments
    blob_attempts,             \* the outcomes of the storage calls so far
    blob_local,                \* download_blob: data; upload_blob: blob_url (may be unbound)
    blob_error,                \* blob_error
    blob_result                \* what the operation returned or raised

tableVars == <<document, table_html_table_url_map, chunk_parts, text_chunk,
               url_to_content_mapping, restored_text_chunk>>

truncVars == <<text, max_chunk_size, page_breaks, step_size, iteration,
               page_break_index, needed_size>>

pageVars == <<content_parts, document_content, chunk_id, current_page, chunk_page>>

emitVars == <<text_chunks, chunks>>

\* The state of the operations modelled further down.
gridVars == <<ocr, grid, header_rows, header_hierarchy, markdown, schema>>

complexVars == <<html_parts, html_table, is_complex>>

understandVars == <<table_mapping, enriched, failures>>

replaceVars == <<current_content, replace_index>>

summaryVars == <<csv_bytes, summary, completion>>

retryVars == <<retries, attempts, analysis>>

blobVars == <<blob_call, blob_attempts, blob_local, blob_error, blob_result>>

moreVars == <<replaceVars, summaryVars, retryVars, blobVars>>

otherVars == <<emitVars, gridVars, complexVars, understandVars, moreVars>>

vars == <<pc, tableVars, truncVars, pageVars, otherVars>>

\* The variables an operation on the tables leaves alone, and likewise.
notTableVars == <<truncVars, pageVars, otherVars>>
notTruncVars == <<tableVars, pageVars, otherVars>>

-----------------------------------------------------------------------------
(* Bounds of the model.                                                    *)

MaxItems == 5        \* pieces a document content is drawn from
MaxTables == 2       \* supplied documentTables entries
MaxChunkParts == 3   \* pieces a chunk text is drawn from
MaxTruncParts == 3   \* pieces a text to truncate is drawn from
MaxBudget == 13      \* largest max_chunk_size tried
MaxContentParts == 4 \* pieces a content to number is drawn from
MaxChunks == 2       \* chunks the page loop goes through
MaxPageNumber == 3   \* largest number of a marker in a chunk
MaxSegments == 3     \* segments the splitter hands to the chunk loop
MaxCells == 2        \* cells of an OCR table
MaxGridRows == 7     \* rows of a grid whose schema is inferred
MaxMapping == 2      \* tables handed to the table understanding
MaxReplacePieces == 2 \* pieces of a content whose tables are replaced one by one
MaxRetries == 3      \* largest number of retries the analysis is asked for

-----------------------------------------------------------------------------
(* Python string primitives.                                               *)

\* s[i-1:j] of Python, 1-based and inclusive here.
Slice(s, i, j) == SubSeq(s, i, j)

\* s.startswith(sub, i-1)
StartsAt(s, sub, i) ==
    /\ i >= 1
    /\ i + Len(sub) - 1 <= Len(s)
    /\ SubSeq(s, i, i + Len(sub) - 1) = sub

\* s.find(sub, from-1) + 1: the least position >= from where sub occurs, 0 if none.
Find(s, sub, from) ==
    LET at == {i \in from..(Len(s) - Len(sub) + 1) : StartsAt(s, sub, i)}
    IN  IF at = {} THEN 0 ELSE CHOOSE i \in at : \A j \in at : i <= j

\* sub in s
Contains(s, sub) == Find(s, sub, 1) # 0

\* s.replace(old, new, 1)
ReplaceFirst(s, old, new) ==
    LET i == Find(s, old, 1)
    IN  IF i = 0 THEN s
        ELSE Slice(s, 1, i - 1) \o new \o Slice(s, i + Len(old), Len(s))

\* s.replace(old, new): every non-overlapping occurrence, left to right.
RECURSIVE ReplaceAllFrom(_, _, _, _)
ReplaceAllFrom(s, old, new, from) ==
    LET i == Find(s, old, from)
    IN  IF i = 0 THEN Slice(s, from, Len(s))
        ELSE Slice(s, from, i - 1) \o new
             \o ReplaceAllFrom(s, old, new, i + Len(old))

ReplaceAll(s, old, new) == ReplaceAllFrom(s, old, new, 1)

\* "".join(parts)
RECURSIVE Join(_)
Join(parts) == IF parts = <<>> THEN "" ELSE Head(parts) \o Join(Tail(parts))

\* All sequences over S of length at most n.
SeqsUpTo(S, n) == UNION {[1..k -> S] : k \in 0..n}

-----------------------------------------------------------------------------
(* Table mapping and marker substitution.                                  *)

TableOpen == "<table>"
TableClose == "</table>"
MarkerPrefix == "[TABLE_IMAGE_URL:"
MarkerSuffix == "]"

\* re.finditer(r"<table>.*?</table>", s, re.DOTALL) from position `from`:
\* the matches as [start, stop] records (1-based, inclusive), leftmost first,
\* each ending at the first "</table>" after its "<table>".
RECURSIVE TableMatches(_, _)
TableMatches(s, from) ==
    LET i == Find(s, TableOpen, from)
        j == IF i = 0 THEN 0 ELSE Find(s, TableClose, i + Len(TableOpen))
    IN  IF i = 0 \/ j = 0 THEN <<>>
        ELSE <<[start |-> i, stop |-> j + Len(TableClose) - 1]>>
             \o TableMatches(s, j + Len(TableClose))

\* Mutant: the pattern is greedy, one match from the first "<table>" to the
\* last "</table>".
FindHtmlTablesGreedy(s) ==
    LET i == Find(s, TableOpen, 1)
        closes == {j \in 1..Len(s) : j >= i + Len(TableOpen) /\ StartsAt(s, TableClose, j)}
    IN  IF i = 0 \/ closes = {} THEN <<>>
        ELSE <<Slice(s, i, (CHOOSE j \in closes : \A k \in closes : k <= j)
                            + Len(TableClose) - 1)>>

\* re.findall(r"<table>.*?</table>", document_content, re.DOTALL)
FindHtmlTables(s) ==
    LET ms == TableMatches(s, 1)
    IN  [k \in 1..Len(ms) |-> Slice(s, ms[k].start, ms[k].stop)]

\* _map_html_tables_with_url: [raised, value]
map_html_tables_with_url(doc) ==
    IF ~doc.hasDocumentTables
    THEN [raised |-> FALSE, value |-> <<>>]
    ELSE LET html_tables == FindHtmlTables(doc.documentContent)
             document_tables == doc.documentTables
         IN  IF Len(html_tables) # Len(document_tables)
             THEN [raised |-> TRUE, value |-> <<>>]
             ELSE [raised |-> FALSE,
                   value |-> [i \in 1..Len(html_tables) |->
                                [name |-> document_tables[i].name,
                                 url |-> document_tables[i].url,
                                 html_table_content |-> html_tables[i],
                                 table_index |-> i - 1]]]

\* Mutant: the marker is written without its closing bracket.
url_marker_unclosed(table_url) == MarkerPrefix \o table_url

\* f"[TABLE_IMAGE_URL:{table_url}]"
url_marker(table_url) == MarkerPrefix \o table_url \o MarkerSuffix

\* Mutant: the marker of a fragment that is not found is put at the end.
ReplaceOneTableOrAppend(modified_content, table_info) ==
    IF Contains(modified_content, table_info.html_table_content)
    THEN ReplaceFirst(modified_content, table_info.html_table_content,
                      url_marker(table_info.url))
    ELSE modified_content \o url_marker(table_info.url)

\* One pass of the replacement loop, for the table at index i (1-based).
ReplaceOneTable(modified_content, table_info) ==
    IF Contains(modified_content, table_info.html_table_content)
    THEN ReplaceFirst(modified_content, table_info.html_table_content,
                      url_marker(table_info.url))
    ELSE modified_content

\* for i in reversed(range(len(enhanced_document_tables))): ...
RECURSIVE ReplaceReversed(_, _, _)
ReplaceReversed(modified_content, tables, i) ==
    IF i = 0 THEN modified_content
    ELSE ReplaceReversed(ReplaceOneTable(modified_content, tables[i]), tables, i - 1)

\* _replace_html_tables_with_url
replace_html_tables_with_url(doc, enhanced_document_tables) ==
    IF enhanced_document_tables = <<>>
    THEN doc.documentContent
    ELSE ReplaceReversed(doc.documentContent, enhanced_document_tables,
                         Len(enhanced_document_tables))

\* re.finditer(r'\[TABLE_IMAGE_URL:([^\]]+)\]', s) from position `from`: the
\* matches as [start, stop, url] records. A prefix directly followed by "]"
\* (an empty URL) is no match, and the scan resumes one character later.
RECURSIVE MarkerMatches(_, _)
MarkerMatches(s, from) ==
    LET i == Find(s, MarkerPrefix, from)
        u == i + Len(MarkerPrefix)
        j == IF i = 0 THEN 0 ELSE Find(s, MarkerSuffix, u)
    IN  IF i = 0 \/ j = 0 THEN <<>>
        ELSE IF j = u THEN MarkerMatches(s, i + 1)
        ELSE <<[start |-> i, stop |-> j, url |-> Slice(s, u, j - 1)]>>
             \o MarkerMatches(s, j + 1)

\* re.findall(marker_pattern, chunk_content): the captured URLs
FindMarkers(s) ==
    LET ms == MarkerMatches(s, 1) IN [k \in 1..Len(ms) |-> ms[k].url]

\* url in url_to_content_mapping / url_to_content_mapping[url]
HasUrl(mapping, url) == \E p \in mapping : p[1] = url
ContentOf(mapping, url) == (CHOOSE p \in mapping : p[1] = url)[2]

\* marker_to_replace = f"[TABLE_IMAGE_URL:{url}]" of the single-marker case
marker_to_replace(url) == MarkerPrefix \o url \o MarkerSuffix

\* replace_marker(match) of the several-markers case
replace_marker(mapping, m, s) ==
    IF HasUrl(mapping, m.url) THEN ContentOf(mapping, m.url)
    ELSE Slice(s, m.start, m.stop)

\* re.sub(marker_pattern, replace_marker, chunk_content)
RECURSIVE SubMarkers(_, _, _, _, _)
SubMarkers(s, ms, k, from, mapping) ==
    IF k > Len(ms) THEN Slice(s, from, Len(s))
    ELSE Slice(s, from, ms[k].start - 1) \o replace_marker(mapping, ms[k], s)
         \o SubMarkers(s, ms, k + 1, ms[k].stop + 1, mapping)

\* Mutant: the check for markers left after the substitution is skipped.
remaining_markers_unchecked(restored_content) == <<>>

\* remaining_markers = re.findall(marker_pattern, restored_content)
remaining_markers(restored_content) == FindMarkers(restored_content)

\* _restore_tables_from_markers: [raised, value]
restore_tables_from_markers(chunk_content, mapping) ==
    LET markers_found == FindMarkers(chunk_content)
    IN  IF Len(markers_found) = 0
        THEN [raised |-> FALSE, value |-> chunk_content]
        ELSE IF Len(markers_found) = 1
        THEN IF HasUrl(mapping, markers_found[1])
             THEN [raised |-> FALSE,
                   value |-> ReplaceAll(chunk_content, marker_to_replace(markers_found[1]),
                                        ContentOf(mapping, markers_found[1]))]
             ELSE [raised |-> TRUE, value |-> chunk_content]
        ELSE LET restored_content ==
                     SubMarkers(chunk_content, MarkerMatches(chunk_content, 1), 1, 1,
                                mapping)
             IN  IF Len(remaining_markers(restored_content)) # 0
                 THEN [raised |-> TRUE, value |-> chunk_content]
                 ELSE [raised |-> FALSE, value |-> restored_content]

\* table_info.get('normalized_md'): None when the item was not enriched; None
\* and "" are both false in `normalized_md if normalized_md else html_backup`.
NormalizedMd(table_info) ==
    IF "normalized_md" \in DOMAIN table_info THEN table_info.normalized_md ELSE ""

\* Mutant: the HTML is restored whether or not there is a markdown.
BuildUrlToContentFromHtml(mapping_items) ==
    {<<mapping_items[i].url, mapping_items[i].html_table_content>> :
        i \in {i \in 1..Len(mapping_items) :
                 \A j \in (i + 1)..Len(mapping_items) :
                    mapping_items[j].url # mapping_items[i].url}}

\* url_to_content_mapping of _process_document_chunks: normalized markdown when
\* there is one, the HTML otherwise; a later item with the same url overwrites
\* an earlier one.
BuildUrlToContent(mapping_items) ==
    {<<mapping_items[i].url,
       IF NormalizedMd(mapping_items[i]) # "" THEN NormalizedMd(mapping_items[i])
       ELSE mapping_items[i].html_table_content>> :
        i \in {i \in 1..Len(mapping_items) :
                 \A j \in (i + 1)..Len(mapping_items) :
                    mapping_items[j].url # mapping_items[i].url}}

-----------------------------------------------------------------------------
(* Inputs of the table operations.                                         *)

ContentPieces == {"a", TableOpen, TableClose}

TableEntries ==
    {[name |-> "t1", url |-> "https://x/t1.png"],
     [name |-> "t2", url |-> "https://x/t2.png"],
     [name |-> "t3", url |-> "https://x/t3.png"]}

TableUrls == {e.url : e \in TableEntries}

\* A document as the layout analysis hands it over; the documentTables key may
\* be missing.
Documents ==
    {[documentContent |-> Join(items), hasDocumentTables |-> TRUE,
      documentTables |-> ts, content |-> ""] :
        items \in SeqsUpTo(ContentPieces, MaxItems),
        ts \in SeqsUpTo(TableEntries, MaxTables)}
    \cup
    {[documentContent |-> Join(items), hasDocumentTables |-> FALSE,
      documentTables |-> <<>>, content |-> ""] :
        items \in SeqsUpTo(ContentPieces, MaxItems)}

ChunkPieces == {"a"} \cup {MarkerPrefix \o u \o MarkerSuffix : u \in TableUrls}

TableContents == {"<table>a</table>", "| a |"}

\* Every url -> content dictionary over the table urls, keys possibly missing.
UrlMappings ==
    {{<<u, f[u]>> : u \in D} : f \in [TableUrls -> TableContents],
                               D \in SUBSET TableUrls}

NoResult == [raised |-> FALSE, value |-> ""]

EmitIdle ==
    /\ text_chunks = <<>>
    /\ chunks = <<>>

NoOcr == [rows |-> 0, cols |-> 0, cells |-> <<>>]

GridIdle ==
    /\ ocr = NoOcr
    /\ grid = <<>>
    /\ header_rows = <<>>
    /\ header_hierarchy = <<>>
    /\ markdown = ""
    /\ schema = <<>>

NoHtmlParts == [border |-> "", style |-> "", thead_rows |-> 0, th_count |-> 0,
                span |-> ""]

ComplexIdle ==
    /\ html_parts = NoHtmlParts
    /\ html_table = ""
    /\ is_complex = FALSE

UnderstandIdle ==
    /\ table_mapping = <<>>
    /\ enriched = <<>>
    /\ failures = <<>>

ReplaceIdle ==
    /\ current_content = ""
    /\ replace_index = 0

SummaryIdle ==
    /\ csv_bytes = ""
    /\ summary = ""
    /\ completion = "not_called"

NoAnalysis == [raised |-> FALSE, value |-> "pending"]

RetryIdle ==
    /\ retries = 0
    /\ attempts = <<>>
    /\ analysis = NoAnalysis

NoBlobCall == [op |-> "none", file_url |-> "", blob_name |-> ""]
Unbound == [bound |-> FALSE, value |-> ""]

BlobIdle ==
    /\ blob_call = NoBlobCall
    /\ blob_attempts = <<>>
    /\ blob_local = Unbound
    /\ blob_error = "None"
    /\ blob_result = NoAnalysis

MoreIdle == ReplaceIdle /\ SummaryIdle /\ RetryIdle /\ BlobIdle

OthersIdle == EmitIdle /\ GridIdle /\ ComplexIdle /\ UnderstandIdle /\ MoreIdle

PagesIdle ==
    /\ content_parts = <<>>
    /\ document_content = ""
    /\ chunk_id = 0
    /\ current_page = 0
    /\ chunk_page = 0

TruncIdle ==
    /\ text = ""
    /\ max_chunk_size = 0
    /\ page_breaks = <<>>
    /\ step_size = 0
    /\ iteration = 0
    /\ page_break_index = 0
    /\ needed_size = 0

TablesIdle ==
    /\ document = [documentContent |-> "", hasDocumentTables |-> FALSE,
                   documentTables |-> <<>>, content |-> ""]
    /\ table_html_table_url_map = <<>>
    /\ chunk_parts = <<>>
    /\ text_chunk = ""
    /\ url_to_content_mapping = {}
    /\ restored_text_chunk = NoResult

-----------------------------------------------------------------------------
(* get_chunks: map the tables, replace them by markers, restore them.      *)

Init ==
    /\ pc = "map"
    /\ document \in Documents
    /\ table_html_table_url_map = <<>>
    /\ chunk_parts = <<>>
    /\ text_chunk = ""
    /\ url_to_content_mapping = {}
    /\ restored_text_chunk = NoResult
    /\ TruncIdle
    /\ PagesIdle
    /\ OthersIdle

\* table_html_table_url_map = self._map_html_tables_with_url(document)
MapHtmlTables ==
    /\ pc = "map"
    /\ LET r == map_html_tables_with_url(document)
       IN  /\ pc' = IF r.raised THEN "map_raised" ELSE "replace"
           /\ table_html_table_url_map' = r.value
    /\ UNCHANGED <<document, chunk_parts, text_chunk, url_to_content_mapping,
                   restored_text_chunk, notTableVars>>

\* document['content'] = self._replace_html_tables_with_url(document, mapping)
ReplaceHtmlTables ==
    /\ pc = "replace"
    /\ document' = [document EXCEPT
                      !.content = replace_html_tables_with_url(
                                      document, table_html_table_url_map)]
    /\ pc' = "restore"
    /\ UNCHANGED <<table_html_table_url_map, chunk_parts, text_chunk,
                   url_to_content_mapping, restored_text_chunk, notTableVars>>

\* _process_document_chunks on a content the splitter leaves in one chunk:
\* the url -> content dictionary is built from the mapping and the chunk's
\* markers are restored from it.
RestoreTables ==
    /\ pc = "restore"
    /\ text_chunk' = document.content
    /\ url_to_content_mapping' = BuildUrlToContent(table_html_table_url_map)
    /\ restored_text_chunk' =
           restore_tables_from_markers(text_chunk', url_to_content_mapping')
    /\ pc' = IF restored_text_chunk'.raised THEN "restore_raised" ELSE "restored"
    /\ UNCHANGED <<document, table_html_table_url_map, chunk_parts, notTableVars>>

Next == MapHtmlTables \/ ReplaceHtmlTables \/ RestoreTables

Spec == Init /\ [][Next]_vars

-----------------------------------------------------------------------------
(* _restore_tables_from_markers on any chunk and any dictionary.           *)

InitRestore ==
    /\ pc = "restore_chunk"
    /\ document = [documentContent |-> "", hasDocumentTables |-> FALSE,
                   documentTables |-> <<>>, content |-> ""]
    /\ table_html_table_url_map = <<>>
    /\ chunk_parts \in SeqsUpTo(ChunkPieces, MaxChunkParts)
    /\ text_chunk = Join(chunk_parts)
    /\ url_to_content_mapping \in UrlMappings
    /\ restored_text_chunk = NoResult
    /\ TruncIdle
    /\ PagesIdle
    /\ OthersIdle

RestoreChunk ==
    /\ pc = "restore_chunk"
    /\ restored_text_chunk' =
           restore_tables_from_markers(text_chunk, url_to_content_mapping)
    /\ pc' = IF restored_text_chunk'.raised THEN "chunk_raised" ELSE "chunk_restored"
    /\ UNCHANGED <<document, table_html_table_url_map, chunk_parts, text_chunk,
                   url_to_content_mapping, notTableVars>>

NextRestore == RestoreChunk

SpecRestore == InitRestore /\ [][NextRestore]_vars

-----------------------------------------------------------------------------
(* _truncate_chunk: whitespace normalization, the step-doubling shrink     *)
(* loop and the re-insertion of page-break markers.                        *)

Digits == {"0", "1", "2", "3", "4", "5", "6", "7", "8", "9"}

\* The characters \s of a regular expression matches, among those of the inputs.
Whitespace == {" ", "\n", "\r", "\t"}

CharAt(s, i) == SubSeq(s, i, i)

\* f[lo] \o ... \o f[hi], halving the range.
RECURSIVE JoinRange(_, _, _)
JoinRange(f, lo, hi) ==
    IF lo > hi THEN ""
    ELSE IF lo = hi THEN f[lo]
    ELSE LET mid == (lo + hi) \div 2
         IN  JoinRange(f, lo, mid) \o JoinRange(f, mid + 1, hi)

\* re.sub(<one or more characters of `chars`>, ' ', s): the first character of
\* each run becomes the space, the others of the run vanish.
CollapseRuns(s, chars) ==
    JoinRange([i \in 1..Len(s) |->
                 IF CharAt(s, i) \in chars
                 THEN (IF i > 1 /\ CharAt(s, i - 1) \in chars THEN "" ELSE " ")
                 ELSE CharAt(s, i)],
              1, Len(s))

\* s.strip()
Strip(s) ==
    LET kept == {i \in 1..Len(s) : CharAt(s, i) \notin Whitespace}
    IN  IF kept = {} THEN ""
        ELSE SubSeq(s, CHOOSE i \in kept : \A j \in kept : i <= j,
                       CHOOSE i \in kept : \A j \in kept : i >= j)

\* text = re.sub(r'\s+', ' ', text).strip()
\* text = re.sub(r'[\n\r]+', ' ', text).strip()
\* (one statement after the other, each on the value the one before left)
CleanUpText(s) ==
    LET collapsed == {CollapseRuns(s, Whitespace)}
        stripped == {Strip(c) : c \in collapsed}
        collapsed2 == {CollapseRuns(c, {"\n", "\r"}) : c \in stripped}
        stripped2 == {Strip(c) : c \in collapsed2}
    IN  CHOOSE t \in stripped2 : TRUE

PageBreakWord == "PageBreak"
PageBreakDigits == 5

AllDigits(s) == \A i \in 1..Len(s) : CharAt(s, i) \in Digits

\* re.finditer(r'PageBreak(\d{5})', s) from position `from`: the start (1-based)
\* of each match, leftmost first, the matches not overlapping.
RECURSIVE PageBreakStarts(_, _)
PageBreakStarts(s, from) ==
    LET i == Find(s, PageBreakWord, from)
        d == i + Len(PageBreakWord)
    IN  IF i = 0 THEN <<>>
        ELSE IF d + PageBreakDigits - 1 <= Len(s)
                /\ AllDigits(SubSeq(s, d, d + PageBreakDigits - 1))
        THEN <<i>> \o PageBreakStarts(s, d + PageBreakDigits)
        ELSE PageBreakStarts(s, i + 1)

\* re.findall(r'PageBreak\d{5}', text)
FindPageBreaks(s) ==
    LET ms == PageBreakStarts(s, 1)
    IN  [k \in 1..Len(ms) |->
            SubSeq(s, ms[k], ms[k] + Len(PageBreakWord) + PageBreakDigits - 1)]

\* The token estimator of the chunker base class: one token per started group
\* of CharsPerToken characters.
CharsPerToken == 4
estimate_tokens(s) == (Len(s) + CharsPerToken - 1) \div CharsPerToken

\* text[:-n] for n >= 1
DropLast(s, n) == SubSeq(s, 1, Len(s) - n)

MaxStepSize == 100

\* page_break_text = f" <!-- {page_break} -->"
page_break_text(page_break) == " <!-- " \o page_break \o " -->"

\* Mutant: the room for the marker is left out of the loop condition.
TrimNeededIgnoringMarker(s, needed, budget) == estimate_tokens(s) > budget

\* while self.token_estimator.estimate_tokens(text) + needed_size > self.max_chunk_size
TrimNeeded(s, needed, budget) == estimate_tokens(s) + needed > budget

Filler == "aaaaaaaaaaaaaaaaaaaaaaaaaaaaaaaaaaaaaaaa"

TruncPieces ==
    {Filler, " \n ", "<!-- PageBreak00001 -->", "<!-- PageBreak00002 -->"}

\* The texts handed to _truncate_chunk.
TruncInputs == {Join(parts) : parts \in SeqsUpTo(TruncPieces, MaxTruncParts)}

\* Lines 1087-1088 and line 1090, worked out once for every input.
\* The chunk contents the splitter hands to _chunk_content: plain text, a
\* table marker alone and after text, and text with a page break and a marker.
SizedContents ==
    {"a",
     url_marker("https://x/t1.png"),
     Filler \o url_marker("https://x/t1.png"),
     "<!-- PageBreak00001 -->" \o Filler \o url_marker("https://x/t1.png"),
     Filler \o "<!-- PageBreak00001 -->" \o url_marker("https://x/t1.png")}

CleanedText == [s \in TruncInputs \cup SizedContents |-> CleanUpText(s)]
PageBreaksOf ==
    [s \in TruncInputs \cup SizedContents |-> FindPageBreaks(CleanedText[s])]

InitTruncate ==
    /\ pc = "truncate"
    /\ text \in TruncInputs
    /\ max_chunk_size \in 1..MaxBudget
    /\ page_breaks = <<>>
    /\ step_size = 0
    /\ iteration = 0
    /\ page_break_index = 0
    /\ needed_size = 0
    /\ TablesIdle
    /\ PagesIdle
    /\ OthersIdle

\* Lines 1087-1090: clean up the text and collect its page-break markers.
CleanUp ==
    /\ pc = "truncate"
    /\ text' = CleanedText[text]
    /\ page_breaks' = PageBreaksOf[text]
    /\ pc' = "shrink_enter"
    /\ UNCHANGED <<max_chunk_size, step_size, iteration, page_break_index,
                   needed_size, notTruncVars>>

\* Line 1093: if estimate_tokens(text) > max_chunk_size: step_size = 1; iteration = 0
ShrinkEnter ==
    /\ pc = "shrink_enter"
    /\ IF estimate_tokens(text) > max_chunk_size
       THEN /\ step_size' = 1
            /\ iteration' = 0
            /\ pc' = "shrink_test"
       ELSE /\ UNCHANGED <<step_size, iteration>>
            /\ pc' = "page_breaks"
    /\ UNCHANGED <<text, max_chunk_size, page_breaks, page_break_index,
                   needed_size, notTruncVars>>

\* Line 1098: while estimate_tokens(text) > max_chunk_size
ShrinkTest ==
    /\ pc = "shrink_test"
    /\ pc' = IF estimate_tokens(text) > max_chunk_size THEN "shrink_body"
             ELSE "page_breaks"
    /\ UNCHANGED <<truncVars, notTruncVars>>

\* Lines 1100-1105: cut step_size characters, double the step every 5 iterations.
ShrinkBody ==
    /\ pc = "shrink_body"
    /\ text' = DropLast(text, step_size)
    /\ iteration' = iteration + 1
    /\ step_size' = IF iteration' % 5 = 0
                    THEN (IF step_size * 2 < MaxStepSize THEN step_size * 2
                          ELSE MaxStepSize)
                    ELSE step_size
    /\ pc' = "shrink_test"
    /\ UNCHANGED <<max_chunk_size, page_breaks, page_break_index, needed_size,
                   notTruncVars>>

\* Lines 1108-1112: the next page_break of the list; return after the last.
NextPageBreak ==
    /\ pc = "page_breaks"
    /\ IF page_break_index >= Len(page_breaks)
       THEN /\ pc' = "truncated"
            /\ UNCHANGED <<page_break_index, needed_size>>
       ELSE /\ page_break_index' = page_break_index + 1
            /\ IF Contains(text, page_breaks[page_break_index'])
               THEN /\ pc' = "page_breaks"
                    /\ UNCHANGED needed_size
               ELSE /\ needed_size' = estimate_tokens(
                            page_break_text(page_breaks[page_break_index']))
                    /\ pc' = "trim_test"
    /\ UNCHANGED <<text, max_chunk_size, page_breaks, step_size, iteration,
                   notTruncVars>>

\* Line 1115, and line 1119 when the loop is left: text += page_break_text
TrimTest ==
    /\ pc = "trim_test"
    /\ IF TrimNeeded(text, needed_size, max_chunk_size)
       THEN /\ pc' = "trim_body"
            /\ UNCHANGED text
       ELSE /\ text' = text \o page_break_text(page_breaks[page_break_index])
            /\ pc' = "page_breaks"
    /\ UNCHANGED <<max_chunk_size, page_breaks, step_size, iteration,
                   page_break_index, needed_size, notTruncVars>>

\* Line 1116: text = text[:-1]
TrimBody ==
    /\ pc = "trim_body"
    /\ text' = DropLast(text, 1)
    /\ pc' = "trim_test"
    /\ UNCHANGED <<max_chunk_size, page_breaks, step_size, iteration,
                   page_break_index, needed_size, notTruncVars>>

NextTruncate ==
    \/ CleanUp
    \/ ShrinkEnter
    \/ ShrinkTest
    \/ ShrinkBody
    \/ NextPageBreak
    \/ TrimTest
    \/ TrimBody

SpecTruncate == InitTruncate /\ [][NextTruncate]_vars

\* The interpreter runs the call on: a step is taken whenever one is possible.
SpecTruncateFair == SpecTruncate /\ WF_vars(NextTruncate)

-----------------------------------------------------------------------------
(* Page-break numbering and the page of a chunk.                           *)

PageBreakLiteral == "<!-- PageBreak -->"

DigitChars == <<"0", "1", "2", "3", "4", "5", "6", "7", "8", "9">>

\* str(i) for i >= 0
RECURSIVE IntToStr(_)
IntToStr(i) ==
    IF i < 10 THEN DigitChars[i + 1]
    ELSE IntToStr(i \div 10) \o DigitChars[(i % 10) + 1]

\* s.zfill(width)
RECURSIVE ZFill(_, _)
ZFill(s, width) == IF Len(s) >= width THEN s ELSE ZFill("0" \o s, width)

\* int(s) for a string of digits
DigitValue(c) == (CHOOSE d \in 1..10 : DigitChars[d] = c) - 1
RECURSIVE ParseInt(_)
ParseInt(s) ==
    IF Len(s) = 0 THEN 0
    ELSE 10 * ParseInt(SubSeq(s, 1, Len(s) - 1)) + DigitValue(CharAt(s, Len(s)))

\* f'<!-- PageBreak{str(i).zfill(5)} -->'
NumberedPageBreak(i) ==
    "<!-- PageBreak" \o ZFill(IntToStr(i), PageBreakDigits) \o " -->"

\* re.findall(r'<!-- PageBreak -->', content): the number of matches
RECURSIVE CountLiterals(_, _)
CountLiterals(s, from) ==
    LET i == Find(s, PageBreakLiteral, from)
    IN  IF i = 0 THEN 0 ELSE 1 + CountLiterals(s, i + Len(PageBreakLiteral))

\* Mutant: the replacement is not limited to the first occurrence.
NumberOneEverywhere(s, i) == ReplaceAll(s, PageBreakLiteral, NumberedPageBreak(i))

\* content = content.replace('<!-- PageBreak -->', f'<!-- PageBreak...', 1)
NumberOne(s, i) == ReplaceFirst(s, PageBreakLiteral, NumberedPageBreak(i))

\* for i, _ in enumerate(pagebreaks, 1): ...
RECURSIVE NumberFrom(_, _, _)
NumberFrom(s, i, n) == IF i > n THEN s ELSE NumberFrom(NumberOne(s, i), i + 1, n)

\* _number_pagebreaks
number_pagebreaks(s) == NumberFrom(s, 1, CountLiterals(s, 1))

\* Mutant: the page counter follows the last marker wherever it points.
AdvancesAlways(page_number, page) == TRUE

\* if page_number >= current_page
Advances(page_number, page) == page_number >= page

\* Mutant: the counter stops at the number of the last marker.
update_page_to_marker(s, page) ==
    LET matches == PageBreakStarts(s, 1)
    IN  IF Len(matches) = 0 THEN page
        ELSE LET d == matches[Len(matches)] + Len(PageBreakWord)
                 page_number == ParseInt(SubSeq(s, d, d + PageBreakDigits - 1))
             IN  IF Advances(page_number, page) THEN page_number ELSE page

\* _update_page
update_page(s, page) ==
    LET matches == PageBreakStarts(s, 1)
    IN  IF Len(matches) = 0 THEN page
        ELSE LET d == matches[Len(matches)] + Len(PageBreakWord)
                 page_number == ParseInt(SubSeq(s, d, d + PageBreakDigits - 1))
             IN  IF Advances(page_number, page) THEN page_number + 1 ELSE page

\* Mutant: a marker at the midpoint counts as before it.
BeforeMidpointOrAt(start, length) == 2 * start <= length

\* position = match.start() / len(content); position < 0.5
\* (start is the 0-based offset; the quotient is below one half exactly when
\* twice the offset is below the length)
BeforeMidpoint(start, length) == 2 * start < length

\* _determine_chunk_page
determine_chunk_page(s, page) ==
    LET matches == PageBreakStarts(s, 1)
    IN  IF Len(matches) = 0 THEN page
        ELSE LET d == matches[1] + Len(PageBreakWord)
                 page_number == ParseInt(SubSeq(s, d, d + PageBreakDigits - 1))
             IN  IF BeforeMidpoint(matches[1] - 1, Len(s)) THEN page_number + 1
                 ELSE page_number

NumberPieces == {"a", " ", PageBreakLiteral}

InitNumber ==
    /\ pc = "number"
    /\ content_parts \in SeqsUpTo(NumberPieces, MaxContentParts)
    /\ document_content = Join(content_parts)
    /\ chunk_id = 0
    /\ current_page = 0
    /\ chunk_page = 0
    /\ TablesIdle
    /\ TruncIdle
    /\ OthersIdle

\* document_content = self._number_pagebreaks(document_content)
NumberPagebreaks ==
    /\ pc = "number"
    /\ document_content' = number_pagebreaks(document_content)
    /\ pc' = "numbered"
    /\ UNCHANGED <<content_parts, chunk_id, current_page, chunk_page, tableVars,
                   truncVars, otherVars>>

NextNumber == NumberPagebreaks

SpecNumber == InitNumber /\ [][NextNumber]_vars

\* Plain text that puts the marker after it at the midpoint of the chunk, and
\* plain text that puts it just beyond.
Pad == "aaaaaaaaaaaaa"
LongPad == "aaaaaaaaaaaaaa"

PagePieces == {Pad, LongPad} \cup {NumberedPageBreak(n) : n \in 1..MaxPageNumber}

\* The chunks the splitter may hand to the loop, as lists of pieces.
PageChunks ==
    {<<>>} \cup {<<p>> : p \in PagePieces}
    \cup {<<p, q>> : p \in PagePieces, q \in PagePieces}

\* The values current_page takes: 1 and the successors of the marker numbers.
PageRange == 1..(MaxPageNumber + 1)

\* The two page functions on every chunk and counter value.
UpdatedPage ==
    [parts \in PageChunks |-> [page \in PageRange |-> update_page(Join(parts), page)]]
ChunkPageOf ==
    [parts \in PageChunks |->
        [page \in PageRange |-> determine_chunk_page(Join(parts), page)]]

InitPages ==
    /\ pc = "chunks"
    /\ content_parts = <<>>
    /\ document_content = ""
    /\ chunk_id = 0
    /\ current_page = 1
    /\ chunk_page = 0
    /\ TablesIdle
    /\ TruncIdle
    /\ OthersIdle

\* One pass of `for text_chunk, chunk_headers, num_tokens in text_chunks`,
\* lines 739-742, on whatever chunk comes next.
ProcessChunk ==
    /\ pc = "chunks"
    /\ chunk_id < MaxChunks
    /\ \E parts \in PageChunks :
          /\ chunk_parts' = parts
          /\ text_chunk' = Join(parts)
          /\ current_page' = UpdatedPage[parts][current_page]
          /\ chunk_page' = ChunkPageOf[parts][current_page']
    /\ chunk_id' = chunk_id + 1
    /\ UNCHANGED <<pc, document, table_html_table_url_map, url_to_content_mapping,
                   restored_text_chunk, content_parts, document_content, truncVars,
                   otherVars>>

NextPages == ProcessChunk

SpecPages == InitPages /\ [][NextPages]_vars

-----------------------------------------------------------------------------
(* The chunk loop of _process_document_chunks: one chunk per segment.      *)

\* self.minimum_chunk_size: MIN_CHUNK_SIZE, 100 by default
MinimumChunkSize == 100

\* A segment as _chunk_content yields it: the text and its number of tokens.
\* The markers of a segment are markers of tables of the document, whose
\* urls are the keys of url_to_content_mapping.
Segments ==
    {[content |-> "a", num_tokens |-> 1],
     [content |-> "a", num_tokens |-> MinimumChunkSize],
     [content |-> NumberedPageBreak(1) \o "a", num_tokens |-> 1],
     [content |-> "a" \o url_marker("https://x/t1.png"), num_tokens |-> MinimumChunkSize],
     [content |-> url_marker("https://x/t2.png") \o url_marker("https://x/t1.png"),
      num_tokens |-> 1]}

\* The mapping items of the two tables of the document, each as the table
\* understanding left it: not enriched, enriched with an empty markdown,
\* enriched with a markdown.
EnrichedItems ==
    {[i \in 1..2 |->
        IF md[i] = "absent"
        THEN [name |-> "t" \o DigitChars[i + 1],
              url |-> "https://x/t" \o DigitChars[i + 1] \o ".png",
              html_table_content |-> "<table>" \o DigitChars[i + 1] \o "</table>",
              table_index |-> i - 1]
        ELSE [name |-> "t" \o DigitChars[i + 1],
              url |-> "https://x/t" \o DigitChars[i + 1] \o ".png",
              html_table_content |-> "<table>" \o DigitChars[i + 1] \o "</table>",
              table_index |-> i - 1,
              normalized_md |-> md[i]]] :
        md \in [1..2 -> {"absent", "", "| a |"}]}

\* Mutant: segments below the minimum chunk size are skipped.
KeepChunkAboveMinimum(num_tokens) == num_tokens >= MinimumChunkSize

\* chunks.append(chunk): every segment's chunk is appended, whatever its size
KeepChunk(num_tokens) == TRUE

\* self._create_chunk(chunk_id=..., content=..., page=..., ...): the fields the
\* loop decides
create_chunk(id, content, page) == [chunk_id |-> id, content |-> content, page |-> page]

InitEmit ==
    /\ pc = "prepare"
    /\ text_chunks \in SeqsUpTo(Segments, MaxSegments)
    /\ chunks = <<>>
    /\ url_to_content_mapping = {}
    /\ document = [documentContent |-> "", hasDocumentTables |-> FALSE,
                   documentTables |-> <<>>, content |-> ""]
    /\ table_html_table_url_map \in EnrichedItems
    /\ chunk_parts = <<>>
    /\ text_chunk = ""
    /\ restored_text_chunk = NoResult
    /\ content_parts = <<>>
    /\ document_content = ""
    /\ chunk_id = 0
    /\ current_page = 1
    /\ chunk_page = 0
    /\ TruncIdle
    /\ GridIdle
    /\ ComplexIdle
    /\ UnderstandIdle
    /\ MoreIdle

\* Lines 713-723: the content to restore for each table url.
PrepareChunks ==
    /\ pc = "prepare"
    /\ url_to_content_mapping' = BuildUrlToContent(table_html_table_url_map)
    /\ pc' = "emit"
    /\ UNCHANGED <<document, table_html_table_url_map, chunk_parts, text_chunk,
                   restored_text_chunk, truncVars, pageVars, otherVars>>

\* One pass of the loop of lines 739-766 on the next segment; an exception of
\* the restore leaves the method.
EmitChunk ==
    /\ pc = "emit"
    /\ chunk_id < Len(text_chunks)
    /\ LET segment == text_chunks[chunk_id + 1]
           page == update_page(segment.content, current_page)
           restored == restore_tables_from_markers(segment.content,
                                                   url_to_content_mapping)
       IN  /\ text_chunk' = segment.content
           /\ current_page' = page
           /\ chunk_page' = determine_chunk_page(segment.content, page)
           /\ chunk_id' = chunk_id + 1
           /\ restored_text_chunk' = restored
           /\ IF restored.raised
              THEN /\ pc' = "emit_raised"
                   /\ UNCHANGED chunks
              ELSE /\ pc' = "emit"
                   /\ chunks' = IF KeepChunk(segment.num_tokens)
                                THEN Append(chunks,
                                            create_chunk(chunk_id', restored.value,
                                                         chunk_page'))
                                ELSE chunks
    /\ UNCHANGED <<document, table_html_table_url_map, chunk_parts,
                   url_to_content_mapping, content_parts, document_content,
                   text_chunks, truncVars, gridVars, complexVars, understandVars, moreVars>>

\* return chunks
ReturnChunks ==
    /\ pc = "emit"
    /\ chunk_id = Len(text_chunks)
    /\ pc' = "emitted"
    /\ UNCHANGED <<tableVars, truncVars, pageVars, otherVars>>

NextEmit == PrepareChunks \/ EmitChunk \/ ReturnChunks

SpecEmit == InitEmit /\ [][NextEmit]_vars

-----------------------------------------------------------------------------
(* The chunk loop of _process_document_chunks over the chunks of one       *)
(* document, with the page given to each chunk kept in the emitted list.   *)

\* The chunks a document is split into, each as the list of its pieces: plain
\* text, a marker before the midpoint, a marker at the midpoint, two markers.
DocumentChunks ==
    {<<Pad>>}
    \cup {<<NumberedPageBreak(n), Pad>> : n \in 1..MaxPageNumber}
    \cup {<<Pad, NumberedPageBreak(n)>> : n \in 1..MaxPageNumber}
    \cup {<<NumberedPageBreak(n), NumberedPageBreak(m)>> :
            n \in 1..MaxPageNumber, m \in 1..MaxPageNumber}

\* Lines 734-737: text_chunks, chunk_id = 0, current_page = 1
InitDocument ==
    /\ pc = "document_chunks"
    /\ text_chunks \in SeqsUpTo(DocumentChunks, MaxChunks)
    /\ chunks = <<>>
    /\ url_to_content_mapping = {}
    /\ document = [documentContent |-> "", hasDocumentTables |-> FALSE,
                   documentTables |-> <<>>, content |-> ""]
    /\ table_html_table_url_map = <<>>
    /\ chunk_parts = <<>>
    /\ text_chunk = ""
    /\ restored_text_chunk = NoResult
    /\ content_parts = <<>>
    /\ document_content = ""
    /\ chunk_id = 0
    /\ current_page = 1
    /\ chunk_page = 0
    /\ TruncIdle
    /\ GridIdle
    /\ ComplexIdle
    /\ UnderstandIdle
    /\ MoreIdle

\* Lines 739-766 for the next chunk of the document: the page counter, the
\* chunk's page, the restore (no table is mapped) and chunks.append(chunk).
ProcessDocumentChunk ==
    /\ pc = "document_chunks"
    /\ chunk_id < Len(text_chunks)
    /\ LET parts == text_chunks[chunk_id + 1]
           content == Join(parts)
           page == update_page(content, current_page)
           restored == restore_tables_from_markers(content, url_to_content_mapping)
       IN  /\ chunk_parts' = parts
           /\ text_chunk' = content
           /\ current_page' = page
           /\ chunk_page' = determine_chunk_page(content, page)
           /\ chunk_id' = chunk_id + 1
           /\ restored_text_chunk' = restored
           /\ chunks' = Append(chunks,
                               create_chunk(chunk_id', restored.value, chunk_page'))
    /\ UNCHANGED <<pc, document, table_html_table_url_map, url_to_content_mapping,
                   content_parts, document_content, text_chunks, truncVars,
                   gridVars, complexVars, understandVars, moreVars>>

\* return chunks
ReturnDocumentChunks ==
    /\ pc = "document_chunks"
    /\ chunk_id = Len(text_chunks)
    /\ pc' = "document_emitted"
    /\ UNCHANGED <<tableVars, truncVars, pageVars, otherVars>>

NextDocument == ProcessDocumentChunk \/ ReturnDocumentChunks

SpecDocument == InitDocument /\ [][NextDocument]_vars

-----------------------------------------------------------------------------
(* One chunk from the splitter to the emitted list: the size check and the *)
(* truncation of _chunk_content, then the loop body with the restore.      *)

\* The mapping item of the one table of the document, not enriched or
\* enriched with a markdown.
SizedItems ==
    {<<[name |-> "t1", url |-> "https://x/t1.png",
        html_table_content |-> "<table>" \o Filler \o Filler \o "</table>",
        table_index |-> 0]>>,
     <<[name |-> "t1", url |-> "https://x/t1.png",
        html_table_content |-> "<table>" \o Filler \o Filler \o "</table>",
        table_index |-> 0, normalized_md |-> "| a |"]>>}

\* Lines 713-737 and the splitter's chunk, before _chunk_content looks at it.
InitSized ==
    /\ pc = "size_check"
    /\ text_chunk \in SizedContents
    /\ max_chunk_size \in 1..MaxBudget
    /\ table_html_table_url_map \in SizedItems
    /\ url_to_content_mapping = BuildUrlToContent(table_html_table_url_map)
    /\ document = [documentContent |-> "", hasDocumentTables |-> FALSE,
                   documentTables |-> <<>>, content |-> ""]
    /\ chunk_parts = <<>>
    /\ restored_text_chunk = NoResult
    /\ text = ""
    /\ page_breaks = <<>>
    /\ step_size = 0
    /\ iteration = 0
    /\ page_break_index = 0
    /\ needed_size = 0
    /\ content_parts = <<>>
    /\ document_content = ""
    /\ chunk_id = 0
    /\ current_page = 1
    /\ chunk_page = 0
    /\ OthersIdle

\* Lines 902-905: chunk_size = estimate_tokens(content);
\* if chunk_size > self.max_chunk_size the content goes to _truncate_chunk.
CheckChunkSize ==
    /\ pc = "size_check"
    /\ IF estimate_tokens(text_chunk) > max_chunk_size
       THEN /\ text' = text_chunk
            /\ pc' = "truncate"
       ELSE /\ UNCHANGED text
            /\ pc' = "sized"
    /\ UNCHANGED <<max_chunk_size, page_breaks, step_size, iteration,
                   page_break_index, needed_size, notTruncVars>>

\* Line 905: chunked_content["content"] = self._truncate_chunk(...), and the
\* yield of line 907.
TakeTruncated ==
    /\ pc = "truncated"
    /\ text_chunk' = text
    /\ pc' = "sized"
    /\ UNCHANGED <<document, table_html_table_url_map, chunk_parts,
                   url_to_content_mapping, restored_text_chunk, truncVars,
                   pageVars, otherVars>>

\* Lines 739-766 for the chunk: the restore comes after the size check.
EmitSizedChunk ==
    /\ pc = "sized"
    /\ LET page == update_page(text_chunk, current_page)
           restored == restore_tables_from_markers(text_chunk, url_to_content_mapping)
       IN  /\ current_page' = page
           /\ chunk_page' = determine_chunk_page(text_chunk, page)
           /\ chunk_id' = chunk_id + 1
           /\ restored_text_chunk' = restored
           /\ IF restored.raised
              THEN /\ pc' = "emit_raised"
                   /\ UNCHANGED chunks
              ELSE /\ pc' = "sized_emitted"
                   /\ chunks' = Append(chunks,
                                       create_chunk(chunk_id', restored.value,
                                                    chunk_page'))
    /\ UNCHANGED <<document, table_html_table_url_map, chunk_parts, text_chunk,
                   url_to_content_mapping, content_parts, document_content,
                   text_chunks, truncVars, gridVars, complexVars, understandVars,
                   moreVars>>

NextSized == CheckChunkSize \/ NextTruncate \/ TakeTruncated \/ EmitSizedChunk

SpecSized == InitSized /\ [][NextSized]_vars

-----------------------------------------------------------------------------
(* ContentUnderstandingService: grid reconstruction and header rows        *)
(* (src/tools/content_understanding.py).  Rows and columns are numbered    *)
(* from 0 as in the source; a grid is a function 0..rows-1 -> 0..cols-1 -> *)
(* text.                                                                   *)

Min(a, b) == IF a <= b THEN a ELSE b
Max(a, b) == IF a >= b THEN a ELSE b

UpperCase == "ABCDEFGHIJKLMNOPQRSTUVWXYZ"
LowerCase == "abcdefghijklmnopqrstuvwxyz"

\* str.lower()
LowerChar(c) ==
    IF \E k \in 1..Len(UpperCase) : CharAt(UpperCase, k) = c
    THEN CharAt(LowerCase, CHOOSE k \in 1..Len(UpperCase) : CharAt(UpperCase, k) = c)
    ELSE c
Lower(s) == JoinRange([i \in 1..Len(s) |-> LowerChar(CharAt(s, i))], 1, Len(s))

\* range(lo, hi)
Range(lo, hi) == lo..(hi - 1)

\* The position a list of length n gives index i: negative indices count from
\* the end; the result is outside 0..n-1 exactly when Python raises IndexError.
PyIndex(i, n) == IF i >= 0 THEN i ELSE i + n
IndexError(i, n) == PyIndex(i, n) < 0 \/ PyIndex(i, n) >= n

\* max_r, max_c of the inference loop over cells[1..k]
RECURSIVE MaxExtent(_, _, _)
MaxExtent(cells, k, axis) ==
    IF k = 0 THEN 0
    ELSE LET cell == cells[k]
             reach == IF axis = "row" THEN cell.row + cell.rowspan
                      ELSE cell.col + cell.colspan
         IN  Max(MaxExtent(cells, k - 1, axis), reach)

\* rows, cols after lines 57-71
InferRows(o) ==
    IF o.rows = 0 \/ o.cols = 0
    THEN Max(o.rows, MaxExtent(o.cells, Len(o.cells), "row")) ELSE o.rows
InferCols(o) ==
    IF o.rows = 0 \/ o.cols = 0
    THEN Max(o.cols, MaxExtent(o.cells, Len(o.cells), "col")) ELSE o.cols

\* [["" for _ in range(cols)] for _ in range(rows)]
EmptyGrid(rows, cols, v) == [r \in 0..(rows - 1) |-> [c \in 0..(cols - 1) |-> v]]

\* Mutant: the span is not expanded, only the cell's own position is written.
CellRowsUnexpanded(cell, rows) == Range(cell.row, Min(rows, cell.row + 1))

\* range(r0, min(rows, r0 + rs)) and range(c0, min(cols, c0 + cs))
CellRows(cell, rows) == Range(cell.row, Min(rows, cell.row + cell.rowspan))
CellCols(cell, cols) == Range(cell.col, Min(cols, cell.col + cell.colspan))

\* grid[r][c] raises for some index of the cell's loops
CellRaises(cell, rows, cols) ==
    /\ CellRows(cell, rows) # {}
    /\ CellCols(cell, cols) # {}
    /\ \/ \E r \in CellRows(cell, rows) : IndexError(r, rows)
       \/ \E c \in CellCols(cell, cols) : IndexError(c, cols)

\* The positions grid[r][c] of the cell's loops address
CellWrites(cell, rows, cols) ==
    {<<PyIndex(r, rows), PyIndex(c, cols)>> :
        r \in CellRows(cell, rows), c \in CellCols(cell, cols)}

\* text = str(cell.get("text", "")).strip()
CellText(cell) == Strip(cell.text)

\* role == "header" with role = str(cell.get("role", "")).lower()
IsHeaderRole(cell) == Lower(cell.role) = "header"

\* Mutant: a position already filled keeps its text.
FirstTextKept(old, new) == IF old # "" THEN old ELSE new

\* grid[r][c] = text
WrittenText(old, new) == new

\* Mutant: the mark of a position follows the role of the cell written last.
HeaderMarkOfLastCell(old, cell) == IsHeaderRole(cell)

\* if role == "header": header_mask[r][c] = True
HeaderMark(old, cell) == IF IsHeaderRole(cell) THEN TRUE ELSE old

\* Lines 78-90 for cells[1..k]: [raised, grid, header_mask]
RECURSIVE PlaceCells(_, _, _, _)
PlaceCells(cells, k, rows, cols) ==
    IF k = 0
    THEN [raised |-> FALSE, grid |-> EmptyGrid(rows, cols, ""),
          header_mask |-> EmptyGrid(rows, cols, FALSE)]
    ELSE LET before == PlaceCells(cells, k - 1, rows, cols)
             cell == cells[k]
             writes == CellWrites(cell, rows, cols)
         IN  IF before.raised \/ CellRaises(cell, rows, cols)
             THEN [before EXCEPT !.raised = TRUE]
             ELSE [raised |-> FALSE,
                   grid |-> [r \in 0..(rows - 1) |-> [c \in 0..(cols - 1) |->
                               IF <<r, c>> \in writes
                               THEN WrittenText(before.grid[r][c], CellText(cell))
                               ELSE before.grid[r][c]]],
                   header_mask |-> [r \in 0..(rows - 1) |-> [c \in 0..(cols - 1) |->
                               IF <<r, c>> \in writes
                               THEN HeaderMark(before.header_mask[r][c], cell)
                               ELSE before.header_mask[r][c]]]]

\* The increasing sequence of the members of a set of integers.
RECURSIVE Sorted(_)
Sorted(S) ==
    IF S = {} THEN <<>>
    ELSE LET m == CHOOSE x \in S : \A y \in S : x <= y
         IN  <<m>> \o Sorted(S \ {m})

\* Mutant: a row qualifies only with more than half of its columns marked.
QualifiesStrictly(header_count, cols) == cols > 0 /\ 2 * header_count > cols

\* cols > 0 and header_count / float(cols) >= 0.5
Qualifies(header_count, cols) == cols > 0 /\ 2 * header_count >= cols

\* Lines 93-101
HeaderRows(header_mask, rows, cols) ==
    LET header_count(r) == Cardinality({c \in 0..(cols - 1) : header_mask[r][c]})
        found == Sorted({r \in 0..(rows - 1) : Qualifies(header_count(r), cols)})
    IN  IF Len(found) = 0 /\ rows > 0 THEN <<0>> ELSE found

\* Mutant: an empty header value is kept in the path.
InPathAlways(val) == TRUE

\* if val
InPath(val) == val # ""

\* path of column c over header_rows[k..]
RECURSIVE HeaderPath(_, _, _, _)
HeaderPath(g, hrows, c, k) ==
    IF k > Len(hrows) THEN <<>>
    ELSE LET val == Strip(g[hrows[k]][c])
         IN  (IF InPath(val) THEN <<val>> ELSE <<>>) \o HeaderPath(g, hrows, c, k + 1)

\* Lines 104-111: one path per column, as a sequence indexed from 1
HeaderHierarchy(g, hrows, cols) == [c \in 1..cols |-> HeaderPath(g, hrows, c - 1, 1)]

\* _reconstruct_grid_and_headers: [raised, grid, header_rows, header_hierarchy]
reconstruct_grid_and_headers(o) ==
    LET rows == InferRows(o)
        cols == InferCols(o)
        placed == PlaceCells(o.cells, Len(o.cells), rows, cols)
        hrows == HeaderRows(placed.header_mask, rows, cols)
    IN  IF placed.raised
        THEN [raised |-> TRUE, grid |-> <<>>, header_rows |-> <<>>,
              header_hierarchy |-> <<>>]
        ELSE [raised |-> FALSE, grid |-> placed.grid, header_rows |-> hrows,
              header_hierarchy |-> HeaderHierarchy(placed.grid, hrows, cols)]

\* Mutant: the first header row is rendered as the header line.
HeaderRowIdxFirst(hrows) == IF Len(hrows) > 0 THEN hrows[1] ELSE 0

\* header_row_idx = header_rows[-1] if header_rows else 0
HeaderRowIdx(hrows) == IF Len(hrows) > 0 THEN hrows[Len(hrows)] ELSE 0

\* len(grid) and the number of columns of a row
GridRows(g) == Cardinality(DOMAIN g)
RowCols(row) == Cardinality(DOMAIN row)

\* " | ".join(row[c..])
RECURSIVE JoinCells(_, _)
JoinCells(row, c) ==
    IF c >= RowCols(row) THEN ""
    ELSE row[c] \o (IF c + 1 < RowCols(row) THEN " | " ELSE "") \o JoinCells(row, c + 1)

\* A line of the pipe table: "| " + " | ".join(row) + " |"
PipeLine(row) == "| " \o JoinCells(row, 0) \o " |"

\* The line between the header and the data: "|" + "---|" * len(headers)
RECURSIVE Dashes(_)
Dashes(n) == IF n = 0 THEN "" ELSE "---|" \o Dashes(n - 1)
SeparatorLine(headers) == "|" \o Dashes(RowCols(headers))

\* "\n".join(lines)
RECURSIVE JoinLines(_)
JoinLines(lines) ==
    IF Len(lines) = 0 THEN ""
    ELSE IF Len(lines) = 1 THEN lines[1]
    ELSE lines[1] \o "\n" \o JoinLines(Tail(lines))

\* data_rows = grid[header_row_idx + 1 :] if header_row_idx + 1 < len(grid) else []
DataRows(g, header_row_idx) ==
    IF header_row_idx + 1 < GridRows(g)
    THEN [k \in 1..(GridRows(g) - header_row_idx - 1) |-> g[header_row_idx + k]]
    ELSE <<>>

\* tabulate(data_rows, headers=headers, tablefmt="pipe"): the header line, the
\* separator and one line per data row; the padding of the columns to a
\* common width is left out.
tabulate(data_rows, headers) ==
    JoinLines(<<PipeLine(headers), SeparatorLine(headers)>>
              \o [k \in 1..Len(data_rows) |-> PipeLine(data_rows[k])])

\* _grid_to_markdown
grid_to_markdown(g, hrows) ==
    IF GridRows(g) = 0 THEN ""
    ELSE LET header_row_idx == HeaderRowIdx(hrows)
         IN  tabulate(DataRows(g, header_row_idx), g[header_row_idx])

\* The cells the OCR reports: a header cell "a" or a data cell " b ", alone
\* at four positions or spanning 2 x 2 from the origin; a 2 x 2 cell reaching
\* beyond three rows; a header cell without text whose role is capitalised; a
\* cell with a negative row.
OcrCells ==
    {[row |-> p[1], col |-> p[2], rowspan |-> p[3], colspan |-> p[3],
      text |-> k[1], role |-> k[2]] :
        p \in {<<0, 0, 1>>, <<0, 1, 1>>, <<1, 0, 1>>, <<2, 0, 1>>, <<0, 0, 2>>},
        k \in {<<"a", "header">>, <<" b ", "data">>}}
    \cup {[row |-> 2, col |-> 1, rowspan |-> 2, colspan |-> 2, text |-> " b ", role |-> "data"],
          [row |-> 0, col |-> 1, rowspan |-> 1, colspan |-> 1, text |-> "", role |-> "Header"],
          [row |-> -1, col |-> 0, rowspan |-> 1, colspan |-> 1, text |-> "c", role |-> "data"]}

\* rows and cols as reported: absent, or smaller or larger than the cells reach.
OcrDims == {<<0, 0>>, <<2, 2>>, <<3, 3>>}

OcrTables ==
    {[rows |-> d[1], cols |-> d[2], cells |-> cs] :
        d \in OcrDims, cs \in SeqsUpTo(OcrCells, MaxCells)}

InitGrid ==
    /\ pc = "reconstruct"
    /\ ocr \in OcrTables
    /\ grid = <<>>
    /\ header_rows = <<>>
    /\ header_hierarchy = <<>>
    /\ markdown = ""
    /\ schema = <<>>
    /\ TablesIdle
    /\ TruncIdle
    /\ PagesIdle
    /\ EmitIdle
    /\ ComplexIdle
    /\ UnderstandIdle
    /\ MoreIdle

\* grid, header_rows, header_hierarchy = self._reconstruct_grid_and_headers(ocr)
Reconstruct ==
    /\ pc = "reconstruct"
    /\ LET result == reconstruct_grid_and_headers(ocr)
       IN  /\ grid' = result.grid
           /\ header_rows' = result.header_rows
           /\ header_hierarchy' = result.header_hierarchy
           /\ pc' = IF result.raised THEN "reconstruct_raised" ELSE "render"
    /\ UNCHANGED <<ocr, markdown, schema, tableVars, truncVars, pageVars, emitVars,
                   complexVars, understandVars, moreVars>>

\* markdown = self._grid_to_markdown(grid, header_rows)
GridToMarkdown ==
    /\ pc = "render"
    /\ markdown' = grid_to_markdown(grid, header_rows)
    /\ pc' = "rendered"
    /\ UNCHANGED <<ocr, grid, header_rows, header_hierarchy, schema, tableVars,
                   truncVars, pageVars, emitVars, complexVars, understandVars, moreVars>>

-----------------------------------------------------------------------------
(* ContentUnderstandingService._infer_schema.                              *)

\* float(v) succeeds, for texts of digits, signs, points and other characters:
\* an optional sign, then digits with at most one point among them and at
\* least one digit. (Exponents, underscores, "inf" and "nan", which float()
\* also takes, do not occur in the grids below.)
IsFloat(v) ==
    LET body == IF Len(v) > 0 /\ CharAt(v, 1) \in {"+", "-"}
                THEN SubSeq(v, 2, Len(v)) ELSE v
        points == {i \in 1..Len(body) : CharAt(body, i) = "."}
        digits == {i \in 1..Len(body) : CharAt(body, i) \in Digits}
    IN  /\ digits # {}
        /\ Cardinality(points) <= 1
        /\ points \cup digits = 1..Len(body)

\* v = (v or "").strip().replace(",", "")
SampleValue(v) == ReplaceAll(Strip(v), ",", "")

\* Mutant: a column is a number when more than 80% of the values parse.
IsNumberRatioStrict(numeric, total) == total > 0 /\ 5 * numeric > 4 * total

\* total > 0 and numeric / float(total) >= 0.8
IsNumberRatio(numeric, total) == total > 0 /\ 5 * numeric >= 4 * total

\* infer_type(values)
infer_type(values) ==
    LET counted == {i \in 1..Len(values) : SampleValue(values[i]) # ""}
        numeric == {i \in counted : IsFloat(SampleValue(values[i]))}
    IN  IF IsNumberRatio(Cardinality(numeric), Cardinality(counted))
        THEN "number" ELSE "string"

\* sample_rows = grid[header_row_idx + 1 : header_row_idx + 6]
SampleRows(g, header_row_idx) ==
    [k \in 1..Max(0, Min(GridRows(g), header_row_idx + 6) - header_row_idx - 1) |->
        g[header_row_idx + k]]

\* col_vals = [row[idx] for row in sample_rows if idx < len(row)]
RECURSIVE ColVals(_, _, _)
ColVals(sample_rows, idx, k) ==
    IF k > Len(sample_rows) THEN <<>>
    ELSE (IF idx < RowCols(sample_rows[k]) THEN <<sample_rows[k][idx]>> ELSE <<>>)
         \o ColVals(sample_rows, idx, k + 1)

\* _infer_schema: the list under "columns"
infer_schema(g, hrows) ==
    IF GridRows(g) = 0 THEN <<>>
    ELSE LET header_row_idx == HeaderRowIdx(hrows)
             headers == g[header_row_idx]
             sample_rows == SampleRows(g, header_row_idx)
         IN  [c \in 1..RowCols(headers) |->
                [name |-> headers[c - 1],
                 type |-> infer_type(ColVals(sample_rows, c - 1, 1))]]

\* The rows of the grids whose schema is inferred, two columns wide.
SchemaRows == {<<"1,000", " 1 ">>, <<"1,000", "a">>, <<"a", "">>}

\* A list of rows as a grid indexed from 0.
AsGrid(rs) == [r \in 0..(Len(rs) - 1) |-> [c \in 0..(Len(rs[r + 1]) - 1) |-> rs[r + 1][c + 1]]]

\* The header rows a grid of n rows can come with: row 0, rows 0 and 1, row 1.
HeaderRowChoices(n) ==
    IF n = 0 THEN {<<>>}
    ELSE IF n = 1 THEN {<<0>>}
    ELSE {<<0>>, <<0, 1>>, <<1>>}

InitSchema ==
    /\ pc = "infer_schema"
    /\ ocr = NoOcr
    /\ \E rs \in SeqsUpTo(SchemaRows, MaxGridRows) :
          /\ grid = AsGrid(rs)
          /\ header_rows \in HeaderRowChoices(Len(rs))
    /\ header_hierarchy = <<>>
    /\ markdown = ""
    /\ schema = <<>>
    /\ TablesIdle
    /\ TruncIdle
    /\ PagesIdle
    /\ EmitIdle
    /\ ComplexIdle
    /\ UnderstandIdle
    /\ MoreIdle

\* schema = self._infer_schema(grid, header_rows)
InferSchema ==
    /\ pc = "infer_schema"
    /\ schema' = infer_schema(grid, header_rows)
    /\ pc' = "schema_inferred"
    /\ UNCHANGED <<ocr, grid, header_rows, header_hierarchy, markdown, tableVars,
                   truncVars, pageVars, emitVars, complexVars, understandVars, moreVars>>

NextSchema == InferSchema

SpecSchema == InitSchema /\ [][NextSchema]_vars

-----------------------------------------------------------------------------
(* ContentUnderstandingService.process after the markdown: CSV, schema and *)
(* the summary of the optional completion collaborator.                    *)

\* _grid_to_csv_bytes: csv.writer with its defaults writes the fields of a row
\* separated by commas and ends each row with "\r\n"; a row of one empty field
\* is written as two quotes. None of the texts of the cells needs quoting.
grid_to_csv_bytes(g) ==
    LET RECURSIVE Fields(_, _)
        Fields(row, c) ==
            IF c >= RowCols(row) THEN ""
            ELSE row[c] \o (IF c + 1 < RowCols(row) THEN "," ELSE "") \o Fields(row, c + 1)
        Row(row) ==
            (IF RowCols(row) = 1 /\ row[0] = "" THEN "\"\"" ELSE Fields(row, 0)) \o "\r\n"
        RECURSIVE Rows(_)
        Rows(r) == IF r >= GridRows(g) THEN "" ELSE Row(g[r]) \o Rows(r + 1)
    IN  Rows(0)

\* self.aoai.get_completion(prompt, max_tokens=800): a text, or an exception
CompletionOutcomes ==
    {[raised |-> FALSE, text |-> "- resumen"], [raised |-> TRUE, text |-> ""]}

\* Mutant: an exception of the completion call is not caught.
summarize_uncaught(markdown_table, outcome) ==
    IF markdown_table = ""
    THEN [raised |-> FALSE, value |-> "", completion |-> "not_called"]
    ELSE IF outcome.raised
    THEN [raised |-> TRUE, value |-> "", completion |-> "raised"]
    ELSE [raised |-> FALSE, value |-> outcome.text, completion |-> "returned"]

\* _summarize: [raised, value] and what the completion call did
summarize(markdown_table, outcome) ==
    IF markdown_table = ""
    THEN [raised |-> FALSE, value |-> "", completion |-> "not_called"]
    ELSE IF outcome.raised
    THEN [raised |-> FALSE, value |-> "", completion |-> "raised"]
    ELSE [raised |-> FALSE, value |-> outcome.text, completion |-> "returned"]

\* Lines 34-51 of process: csv_bytes, schema, summary and the return.
FinishProcess ==
    /\ pc = "rendered"
    /\ csv_bytes' = grid_to_csv_bytes(grid)
    /\ schema' = infer_schema(grid, header_rows)
    /\ \E outcome \in CompletionOutcomes :
          LET result == summarize(markdown, outcome)
          IN  /\ summary' = result.value
              /\ completion' = result.completion
              /\ pc' = IF result.raised THEN "summarize_raised" ELSE "processed"
    /\ UNCHANGED <<ocr, grid, header_rows, header_hierarchy, markdown, tableVars,
                   truncVars, pageVars, emitVars, complexVars, understandVars,
                   replaceVars, retryVars, blobVars>>

NextGrid == Reconstruct \/ GridToMarkdown \/ FinishProcess

SpecGrid == InitGrid /\ [][NextGrid]_vars

-----------------------------------------------------------------------------
(* DocAnalysisChunker._is_table_complex.  The HTML is a string; what       *)
(* BeautifulSoup finds in it is computed from the string, for tables whose  *)
(* tags are written <name attr='value' ...>.                               *)

\* The number of occurrences of sub in s from position `from` on.
RECURSIVE CountFrom(_, _, _)
CountFrom(s, sub, from) ==
    LET i == Find(s, sub, from)
    IN  IF i = 0 THEN 0 ELSE 1 + CountFrom(s, sub, i + Len(sub))

\* soup.find('table'): the opening tag of the first table element, "" if none
TableTag(html) ==
    LET i == Find(html, "<table", 1)
    IN  IF i = 0 THEN "" ELSE SubSeq(html, i, Find(html, ">", i))

\* tag.get(name): [present, value]; present is false where Python has None
TagGet(tag, name) ==
    LET key == " " \o name \o "='"
        i == Find(tag, key, 1)
    IN  IF i = 0 THEN [present |-> FALSE, value |-> ""]
        ELSE [present |-> TRUE,
              value |-> SubSeq(tag, i + Len(key), Find(tag, "'", i + Len(key)) - 1)]

\* bool(soup.find(attrs={name: True})): some element carries the attribute
HasAttr(html, name) == Contains(html, " " \o name \o "='")

\* len(soup.find_all('th'))
ThCount(html) == CountFrom(html, "<th>", 1) + CountFrom(html, "<th ", 1)

\* len(thead.find_all('tr')) for thead = soup.find('thead'), 0 without thead
TheadRows(html) ==
    LET i == Find(html, "<thead", 1)
    IN  IF i = 0 THEN 0
        ELSE CountFrom(SubSeq(html, i, Find(html, "</thead>", i)), "<tr", 1)

\* border_attr in (None, '0', 0)
BorderIsNoneOrZero(border_attr) == ~border_attr.present \/ border_attr.value = "0"

\* _is_table_complex; an exception inside the try gives False
is_table_complex(html) ==
    LET tag == TableTag(html)
        border_attr == IF tag # "" THEN TagGet(tag, "border")
                       ELSE [present |-> FALSE, value |-> ""]
        style_attr == IF tag # "" THEN TagGet(tag, "style")
                      ELSE [present |-> TRUE, value |-> ""]
        borderless == /\ BorderIsNoneOrZero(border_attr)
                      /\ \/ ~Contains(style_attr.value, "border")
                         \/ Contains(style_attr.value, "none")
    IN  IF BorderIsNoneOrZero(border_attr) /\ ~style_attr.present
        THEN FALSE    \* 'border' not in None: TypeError, caught at line 174
        ELSE \/ HasAttr(html, "rowspan")
             \/ HasAttr(html, "colspan")
             \/ borderless
             \/ TheadRows(html) > 1
             \/ ThCount(html) > 10

\* n header cells
RECURSIVE ThCells(_)
ThCells(n) == IF n = 0 THEN "" ELSE "<th>a</th>" \o ThCells(n - 1)

\* The HTML table put together from its pieces.
HtmlOf(parts) ==
    "<table" \o parts.border \o parts.style \o ">"
    \o (IF parts.thead_rows = 0 THEN "<tr>" \o ThCells(parts.th_count) \o "</tr>"
        ELSE "<thead><tr>" \o ThCells(parts.th_count) \o "</tr>"
             \o (IF parts.thead_rows = 2 THEN "<tr></tr>" ELSE "") \o "</thead>")
    \o "<tr><td" \o parts.span \o ">a</td></tr></table>"

\* Tables with and without border and style attributes, with no, one or two
\* rows in the thead, with 0, 10 or 11 header cells, with and without a span.
HtmlParts ==
    [border : {"", " border='0'", " border='1'"},
     style : {"", " style=''", " style='border:1px solid'", " style='border:none'",
              " style='color:red'"},
     thead_rows : 0..2,
     th_count : {0, 10, 11},
     span : {"", " rowspan='2'", " colspan='2'"}]

InitComplex ==
    /\ pc = "is_table_complex"
    /\ html_parts \in HtmlParts
    /\ html_table = HtmlOf(html_parts)
    /\ is_complex = FALSE
    /\ TablesIdle
    /\ TruncIdle
    /\ PagesIdle
    /\ EmitIdle
    /\ GridIdle
    /\ UnderstandIdle
    /\ MoreIdle

\* self._is_table_complex(html)
IsTableComplex ==
    /\ pc = "is_table_complex"
    /\ is_complex' = is_table_complex(html_table)
    /\ pc' = "complexity_known"
    /\ UNCHANGED <<html_parts, html_table, tableVars, truncVars, pageVars, emitVars,
                   gridVars, understandVars, moreVars>>

NextComplex == IsTableComplex

SpecComplex == InitComplex /\ [][NextComplex]_vars

-----------------------------------------------------------------------------
(* DocAnalysisChunker._run_table_understanding.                            *)

\* The steps of the try block that call a collaborator or the content
\* understanding, in the order of lines 200-235.
UnderstandSteps ==
    <<"generate_sas_token", "download_blob", "analyze_table_image", "process",
      "json_upload", "csv_upload", "md_upload", "schema_upload", "semantic_upload">>

StepIndex(step) == CHOOSE k \in 1..Len(UnderstandSteps) : UnderstandSteps[k] = step

\* os.path.splitext(os.path.basename(url))[0]
BaseName(url) ==
    LET slashes == {i \in 1..Len(url) : CharAt(url, i) = "/"}
        start == IF slashes = {} THEN 1
                 ELSE (CHOOSE i \in slashes : \A j \in slashes : j <= i) + 1
        name == SubSeq(url, start, Len(url))
        dots == {i \in 2..Len(name) : CharAt(name, i) = "."}
    IN  IF dots = {} THEN name
        ELSE SubSeq(name, 1, (CHOOSE i \in dots : \A j \in dots : j <= i) - 1)

\* self._upload_bytes(blob_name, data): the url the storage gives the blob
upload_bytes(blob_name) == "https://store/" \o blob_name

\* What pixtral_client.analyze_table_image may return: nothing, a table of
\* two cells, a table whose only cell has a negative row.
OcrResults ==
    {NoOcr,
     [rows |-> 0, cols |-> 0,
      cells |-> <<[row |-> 0, col |-> 0, rowspan |-> 1, colspan |-> 1,
                   text |-> "a", role |-> "header"],
                  [row |-> 1, col |-> 0, rowspan |-> 1, colspan |-> 1,
                   text |-> " b ", role |-> "data"]>>],
     [rows |-> 0, cols |-> 0,
      cells |-> <<[row |-> -1, col |-> 0, rowspan |-> 1, colspan |-> 1,
                   text |-> "c", role |-> "data"]>>]}

\* cu.process(ocr): [raised, markdown, header_hierarchy]
process(o) ==
    LET result == reconstruct_grid_and_headers(o)
    IN  IF result.raised
        THEN [raised |-> TRUE, markdown |-> "", header_hierarchy |-> <<>>]
        ELSE [raised |-> FALSE,
              markdown |-> grid_to_markdown(result.grid, result.header_rows),
              header_hierarchy |-> result.header_hierarchy]

\* Mutant: a failed upload is not caught.
CaughtUnlessUpload(step) == StepIndex(step) <= StepIndex("process")

\* except Exception as e: every failure inside the try is caught and logged
Caught(step) == TRUE

\* The item after the try block when `step` fails ("none": no step fails) with
\* the OCR result o; the fields set before the failure stay set.
ItemAfter(item, step, o) ==
    LET base_name == BaseName(item.url)
        cu_result == process(o)
        with_id == [k \in DOMAIN item \cup {"table_id"} |->
                       IF k = "table_id" THEN base_name ELSE item[k]]
    IN  IF step # "none" /\ StepIndex(step) <= StepIndex("process") THEN item
        ELSE IF step # "none" THEN with_id
        ELSE [k \in DOMAIN item \cup {"table_id", "artifacts", "normalized_md",
                                      "quality_confidence", "header_hierarchy"} |->
                 CASE k = "table_id" -> base_name
                   [] k = "artifacts" ->
                        [json_url |-> upload_bytes(base_name \o ".ocr.json"),
                         csv_url |-> upload_bytes(base_name \o ".csv"),
                         md_url |-> upload_bytes(base_name \o ".md"),
                         schema_url |-> upload_bytes(base_name \o ".schema.json"),
                         semantic_url |-> upload_bytes(base_name \o ".semantic.json")]
                   [] k = "normalized_md" -> cu_result.markdown
                   [] k = "quality_confidence" -> 0
                   [] k = "header_hierarchy" -> cu_result.header_hierarchy
                   [] OTHER -> item[k]]

\* The HTML of the tables of a mapping: a bordered table, the same with a
\* spanning cell, and a spanning cell in a table without attributes.
UnderstandHtmls ==
    {"<table border='1' style='border:1px solid'><tr><td>a</td></tr></table>",
     "<table border='1' style='border:1px solid'><tr><td rowspan='2'>a</td></tr></table>",
     "<table><tr><td rowspan='2'>a</td></tr></table>"}

\* The mappings handed over: item i is table i of the document.
MappingOf(h) ==
    [i \in 1..Len(h) |->
        [name |-> "t" \o DigitChars[i + 1],
         url |-> "https://x/t" \o DigitChars[i + 1] \o ".png",
         html_table_content |-> h[i],
         table_index |-> i - 1]]

Mappings == {MappingOf(h) : h \in SeqsUpTo(UnderstandHtmls, MaxMapping)}

InitUnderstand ==
    /\ pc = "understand"
    /\ table_mapping \in Mappings
    /\ enriched = <<>>
    /\ failures = <<>>
    /\ TablesIdle
    /\ TruncIdle
    /\ PagesIdle
    /\ EmitIdle
    /\ GridIdle
    /\ ComplexIdle
    /\ MoreIdle

\* One pass of the loop of lines 186-249: a table that is not complex is
\* passed on; for a complex one any step may fail, and the OCR returns one of
\* its results.
UnderstandTable ==
    /\ pc = "understand"
    /\ Len(enriched) < Len(table_mapping)
    /\ LET item == table_mapping[Len(enriched) + 1]
       IN  IF ~is_table_complex(item.html_table_content)
           THEN /\ enriched' = Append(enriched, item)
                /\ failures' = Append(failures, "skipped")
                /\ pc' = "understand"
           ELSE \E o \in OcrResults :
                \E chosen \in {UnderstandSteps[k] : k \in 1..Len(UnderstandSteps)}
                              \cup {"none"} :
                   LET step == IF process(o).raised
                                  /\ (chosen = "none"
                                      \/ StepIndex(chosen) > StepIndex("process"))
                               THEN "process" ELSE chosen
                   IN  IF step # "none" /\ ~Caught(step)
                       THEN /\ pc' = "understand_raised"
                            /\ failures' = Append(failures, step)
                            /\ UNCHANGED enriched
                       ELSE /\ pc' = "understand"
                            /\ failures' = Append(failures, step)
                            /\ enriched' = Append(enriched, ItemAfter(item, step, o))
    /\ UNCHANGED <<table_mapping, tableVars, truncVars, pageVars, emitVars, gridVars,
                   complexVars, moreVars>>

\* return enriched
ReturnEnriched ==
    /\ pc = "understand"
    /\ Len(enriched) = Len(table_mapping)
    /\ pc' = "understood"
    /\ UNCHANGED <<tableVars, truncVars, pageVars, otherVars>>

NextUnderstand == UnderstandTable \/ ReturnEnriched

SpecUnderstand == InitUnderstand /\ [][NextUnderstand]_vars

-----------------------------------------------------------------------------
(* DocAnalysisChunker._replace_html_tables_with_url, one item at a time.   *)

\* Contents made of whole fragments, one of them holding another.
ReplacePieces == {"a", "<table></table>", "<table>a</table>", "<table><table></table>"}

ReplaceContents == {Join(items) : items \in SeqsUpTo(ReplacePieces, MaxReplacePieces)}

\* The mapping of a content whose i-th fragment was supplied as table i.
MappingOfContent(content) ==
    LET html_tables == FindHtmlTables(content)
    IN  [i \in 1..Len(html_tables) |->
           [name |-> "t" \o DigitChars[i + 1],
            url |-> "https://x/t" \o DigitChars[i + 1] \o ".png",
            html_table_content |-> html_tables[i],
            table_index |-> i - 1]]

\* The document and a mapping, built from its content or from another one.
InitReplace ==
    /\ pc = "replace_loop"
    /\ \E content \in ReplaceContents :
          /\ document = [documentContent |-> content, hasDocumentTables |-> TRUE,
                         documentTables |-> <<>>, content |-> ""]
          /\ current_content = content
    /\ \E other \in ReplaceContents :
          table_html_table_url_map = MappingOfContent(other)
    /\ replace_index = Len(table_html_table_url_map)
    /\ chunk_parts = <<>>
    /\ text_chunk = ""
    /\ url_to_content_mapping = {}
    /\ restored_text_chunk = NoResult
    /\ TruncIdle
    /\ PagesIdle
    /\ EmitIdle
    /\ GridIdle
    /\ ComplexIdle
    /\ UnderstandIdle
    /\ SummaryIdle
    /\ RetryIdle
    /\ BlobIdle

\* One pass of the loop of lines 338-352, from the last item to the first.
ReplaceTable ==
    /\ pc = "replace_loop"
    /\ replace_index > 0
    /\ current_content' = ReplaceOneTable(current_content,
                                           table_html_table_url_map[replace_index])
    /\ replace_index' = replace_index - 1
    /\ UNCHANGED <<pc, tableVars, truncVars, pageVars, emitVars, gridVars, complexVars,
                   understandVars, summaryVars, retryVars, blobVars>>

\* return current_content
ReturnReplaced ==
    /\ pc = "replace_loop"
    /\ replace_index = 0
    /\ pc' = "replaced"
    /\ document' = [document EXCEPT !.content = current_content]
    /\ UNCHANGED <<table_html_table_url_map, chunk_parts, text_chunk,
                   url_to_content_mapping, restored_text_chunk, notTableVars>>

NextReplace == ReplaceTable \/ ReturnReplaced

SpecReplace == InitReplace /\ [][NextReplace]_vars

-----------------------------------------------------------------------------
(* DocAnalysisChunker._analyze_document_with_retry.                        *)

\* retries=3
DefaultRetries == 3

\* self.docint_client.analyze_document(self.file_url): a (document,
\* analysis_errors) pair, or an exception.
AnalyzeOutcomes ==
    {[raised |-> FALSE, value |-> <<d, errs>>] :
        d \in {"content", "content with tables"}, errs \in {<<>>, <<"warning">>}}
    \cup {[raised |-> TRUE, value |-> err] : err \in {"timeout", "throttled", "http 500"}}

\* Mutant: the loop goes on after a call that succeeded.
ReturnsAtOnceNever(outcome) == FALSE

\* return document, analysis_errors: inside the try, right after the call
ReturnsAtOnce(outcome) == ~outcome.raised

\* if attempt == retries - 1: raise
IsLastAttempt(attempt, n) == attempt = n - 1

InitRetry ==
    /\ pc = "analyze"
    /\ retries \in 0..MaxRetries \cup {DefaultRetries}
    /\ attempts = <<>>
    /\ analysis = NoAnalysis
    /\ TablesIdle
    /\ TruncIdle
    /\ PagesIdle
    /\ EmitIdle
    /\ GridIdle
    /\ ComplexIdle
    /\ UnderstandIdle
    /\ ReplaceIdle
    /\ SummaryIdle
    /\ BlobIdle

\* One pass of `for attempt in range(retries)`; attempt is Len(attempts).
AnalyzeAttempt ==
    /\ pc = "analyze"
    /\ Len(attempts) < retries
    /\ \E outcome \in AnalyzeOutcomes :
          /\ attempts' = Append(attempts, outcome)
          /\ IF ReturnsAtOnce(outcome)
             THEN /\ analysis' = outcome
                  /\ pc' = "analyzed"
             ELSE IF outcome.raised /\ IsLastAttempt(Len(attempts), retries)
             THEN /\ analysis' = outcome
                  /\ pc' = "analyze_raised"
             ELSE /\ pc' = "analyze"
                  /\ UNCHANGED analysis
    /\ UNCHANGED <<retries, tableVars, truncVars, pageVars, emitVars, gridVars,
                   complexVars, understandVars, replaceVars, summaryVars,
                   blobVars>>

\* return None, None: the loop ended without a return or a raise
AnalyzeFallThrough ==
    /\ pc = "analyze"
    /\ Len(attempts) >= retries
    /\ analysis' = [raised |-> FALSE, value |-> <<"None", "None">>]
    /\ pc' = "analyzed"
    /\ UNCHANGED <<retries, attempts, tableVars, truncVars, pageVars, emitVars,
                   gridVars, complexVars, understandVars, replaceVars, summaryVars,
                   blobVars>>

NextRetry == AnalyzeAttempt \/ AnalyzeFallThrough

SpecRetry == InitRetry /\ [][NextRetry]_vars

-----------------------------------------------------------------------------
(* BlobStorageClient.download_blob and upload_blob.                        *)

\* The position of the n-th "/" of a url.
SlashAt(url, n) ==
    LET slashes == {i \in 1..Len(url) : CharAt(url, i) = "/"}
    IN  CHOOSE i \in slashes : Cardinality({j \in slashes : j <= i}) = n

\* parsed_url.scheme + "://" + parsed_url.netloc
AccountUrl(file_url) == SubSeq(file_url, 1, SlashAt(file_url, 3) - 1)

\* parsed_url.path.split("/")[1]
ContainerName(file_url) ==
    SubSeq(file_url, SlashAt(file_url, 3) + 1, SlashAt(file_url, 4) - 1)

\* f"{account_url}/{container_name}/{blob_name}" with the "-tables" container
BlobUrl(file_url, blob_name) ==
    AccountUrl(file_url) \o "/" \o ContainerName(file_url) \o "-tables" \o "/" \o blob_name

\* The calls made of the two operations.
BlobCalls ==
    {[op |-> "download", file_url |-> u, blob_name |-> ""] :
        u \in {"https://s/docs/f.pdf", "https://s/in/a/t1.png"}}
    \cup {[op |-> "upload", file_url |-> u, blob_name |-> n] :
            u \in {"https://s/docs/f.pdf", "https://s/in/a/t1.png"},
            n \in {"t1.csv", "t1.md"}}

\* blob_client.download_blob().readall() / blob_client.upload_blob(...): the
\* bytes read, nothing, or an exception.
BlobOutcomes(op) ==
    (IF op = "download"
     THEN {[raised |-> FALSE, value |-> b] : b \in {"bytes 1", "bytes 2"}}
     ELSE {[raised |-> FALSE, value |-> ""]})
    \cup {[raised |-> TRUE, value |-> err] : err \in {"timeout", "throttled", "http 500"}}

InitBlob ==
    /\ pc = "blob_try"
    /\ blob_call \in BlobCalls
    /\ blob_attempts = <<>>
    /\ blob_local = IF blob_call.op = "download" THEN [bound |-> TRUE, value |-> ""]
                    ELSE Unbound
    /\ blob_error = "None"
    /\ blob_result = NoAnalysis
    /\ TablesIdle
    /\ TruncIdle
    /\ PagesIdle
    /\ EmitIdle
    /\ GridIdle
    /\ ComplexIdle
    /\ UnderstandIdle
    /\ ReplaceIdle
    /\ SummaryIdle
    /\ RetryIdle

\* The outer try: lines 30-31, and lines 58-61.
BlobFirstAttempt ==
    /\ pc = "blob_try"
    /\ \E outcome \in BlobOutcomes(blob_call.op) :
          /\ blob_attempts' = Append(blob_attempts, outcome)
          /\ IF outcome.raised
             THEN /\ pc' = "blob_retry"
                  /\ UNCHANGED blob_local
             ELSE /\ pc' = "blob_return"
                  /\ blob_local' =
                        [bound |-> TRUE,
                         value |-> IF blob_call.op = "download" THEN outcome.value
                                   ELSE BlobUrl(blob_call.file_url, blob_call.blob_name)]
    /\ UNCHANGED <<blob_call, blob_error, blob_result, tableVars, truncVars, pageVars,
                   emitVars, gridVars, complexVars, understandVars, replaceVars,
                   summaryVars, retryVars>>

\* The except branch: time.sleep(10) and the inner try, lines 32-38 and 62-69;
\* the retried upload assigns nothing.
BlobSecondAttempt ==
    /\ pc = "blob_retry"
    /\ \E outcome \in BlobOutcomes(blob_call.op) :
          /\ blob_attempts' = Append(blob_attempts, outcome)
          /\ blob_error' = IF outcome.raised THEN outcome.value ELSE blob_error
          /\ blob_local' = IF ~outcome.raised /\ blob_call.op = "download"
                           THEN [bound |-> TRUE, value |-> outcome.value]
                           ELSE blob_local
    /\ pc' = "blob_return"
    /\ UNCHANGED <<blob_call, blob_result, tableVars, truncVars, pageVars, emitVars,
                   gridVars, complexVars, understandVars, replaceVars, summaryVars,
                   retryVars>>

\* `if blob_error:` logs; then return data / return blob_url, which raises
\* UnboundLocalError when blob_url was never assigned.
BlobReturn ==
    /\ pc = "blob_return"
    /\ IF blob_local.bound
       THEN /\ blob_result' = [raised |-> FALSE, value |-> blob_local.value]
            /\ pc' = "blob_returned"
       ELSE /\ blob_result' = [raised |-> TRUE, value |-> "UnboundLocalError"]
            /\ pc' = "blob_raised"
    /\ UNCHANGED <<blob_call, blob_attempts, blob_local, blob_error, tableVars,
                   truncVars, pageVars, emitVars, gridVars, complexVars, understandVars,
                   replaceVars, summaryVars, retryVars>>

NextBlob == BlobFirstAttempt \/ BlobSecondAttempt \/ BlobReturn

SpecBlob == InitBlob /\ [][NextBlob]_vars

-----------------------------------------------------------------------------
(* Properties of the table mapping and the marker substitution.            *)

\* Number of supplied table entries; none when the documentTables key is missing.
SuppliedCount ==
    IF document.hasDocumentTables THEN Len(document.documentTables) ELSE 0

MapReturned == pc \in {"replace", "restore", "restored", "restore_raised"}
MapRaised == pc = "map_raised"
Replaced == pc \in {"restore", "restored", "restore_raised"}
RestoreEnded == pc \in {"restored", "restore_raised"}

DistinctUrls(tables) ==
    \A i, j \in 1..Len(tables) : i # j => tables[i].url # tables[j].url

\* The marker text of a url, as the claims state it.
MarkerText(url) == "[TABLE_IMAGE_URL:" \o url \o "]"

\* C1: the mapper either raises or returns a mapping as long as both the
\* number of <table> fragments of documentContent and the number of supplied
\* entries; whenever the two numbers differ it raises.
C1_MapRaisesOnMismatch ==
    LET found == Len(FindHtmlTables(document.documentContent))
    IN  /\ MapReturned => /\ Len(table_html_table_url_map) = found
                          /\ Len(table_html_table_url_map) = SuppliedCount
        /\ (MapReturned \/ MapRaised) /\ found # SuppliedCount => MapRaised

\* The text with the k-th <table> match cut out by its offsets and the marker
\* of the k-th table put in its place.
RECURSIVE EmbedByOffset(_, _, _, _, _)
EmbedByOffset(s, ms, k, from, tables) ==
    IF k > Len(ms) THEN Slice(s, from, Len(s))
    ELSE Slice(s, from, ms[k].start - 1) \o MarkerText(tables[k].url)
         \o EmbedByOffset(s, ms, k + 1, ms[k].stop + 1, tables)

\* C2: with a mapping built from the same content and pairwise distinct urls,
\* the replaced text has the marker of item k exactly where the k-th <table>
\* fragment stood and is unchanged elsewhere.
C2_MarkerStandsWhereFragmentStood ==
    (Replaced /\ table_html_table_url_map # <<>>
        /\ DistinctUrls(table_html_table_url_map))
    => document.content =
          EmbedByOffset(document.documentContent,
                        TableMatches(document.documentContent, 1), 1, 1,
                        table_html_table_url_map)

\* C3: restoring the marked text with the complete url -> fragment dictionary
\* gives back the content as it was before the markers were put in, and
\* putting the markers into the restored text gives the same marked text.
C3_MarkerRoundTrip ==
    (RestoreEnded /\ DistinctUrls(table_html_table_url_map))
    => /\ url_to_content_mapping =
             {<<table_html_table_url_map[i].url,
                table_html_table_url_map[i].html_table_content>> :
                 i \in 1..Len(table_html_table_url_map)}
       /\ ~restored_text_chunk.raised
       /\ restored_text_chunk.value = document.documentContent
       /\ replace_html_tables_with_url(
              [document EXCEPT !.documentContent = restored_text_chunk.value],
              table_html_table_url_map) = document.content

\* Two tables with distinct urls were replaced by two markers and restored.
C3_Witness ==
    /\ pc = "restored"
    /\ Len(table_html_table_url_map) = 2
    /\ DistinctUrls(table_html_table_url_map)
    /\ Len(FindMarkers(document.content)) = 2
    /\ document.content # document.documentContent
    /\ restored_text_chunk.value = document.documentContent

IsMarkerPiece(p) == \E u \in TableUrls : p = MarkerText(u)
PieceUrl(p) == CHOOSE u \in TableUrls : p = MarkerText(u)
MarkerUrlsOf(parts) ==
    {PieceUrl(parts[i]) : i \in {i \in 1..Len(parts) : IsMarkerPiece(parts[i])}}

\* The chunk's pieces with every marker piece exchanged for its url's content.
ExpectedRestore(parts, mapping) ==
    Join([i \in 1..Len(parts) |->
            IF IsMarkerPiece(parts[i]) THEN ContentOf(mapping, PieceUrl(parts[i]))
            ELSE parts[i]])

-----------------------------------------------------------------------------
(* Properties of _truncate_chunk.                                          *)

\* C5: the text _truncate_chunk returns is estimated at no more tokens than
\* max_chunk_size, also when page-break markers were appended again.
C5_TruncatedFitsBudget ==
    pc = "truncated" => estimate_tokens(text) <= max_chunk_size

\* The shrink loop has cut the text and a marker was appended again.
C5_Witness ==
    /\ pc = "truncated"
    /\ iteration > 0
    /\ needed_size > 0
    /\ \E k \in 1..Len(page_breaks) :
          LET t == page_break_text(page_breaks[k])
          IN  Len(text) >= Len(t)
              /\ SubSeq(text, Len(text) - Len(t) + 1, Len(text)) = t

\* C6: _truncate_chunk terminates for every text and every budget, the
\* budgets smaller than one marker to append included.
C6_TruncateTerminates == <>(pc = "truncated")

\* C7: every numbered page-break marker of the normalized input is in the
\* returned text.
C7_PageBreaksSurvive ==
    pc = "truncated"
    => \A k \in 1..Len(page_breaks) : Contains(text, page_breaks[k])

-----------------------------------------------------------------------------
(* Properties of the page-break numbering and of the page of a chunk.      *)

\* The positions of the pieces of `parts` that satisfy IsMark, in order.
MarkPositions(parts, IsMark(_)) ==
    LET idx == {i \in 1..Len(parts) : IsMark(parts[i])}
        Rank(i) == Cardinality({j \in idx : j <= i})
    IN  [k \in 1..Cardinality(idx) |-> CHOOSE i \in idx : Rank(i) = k]

IsLiteralPiece(p) == p = "<!-- PageBreak -->"

\* The five-digit numbers of the claims, for the numbers the inputs reach.
FiveDigits(k) ==
    IF k < 10 THEN "0000" \o DigitChars[k + 1]
    ELSE "000" \o DigitChars[(k \div 10) + 1] \o DigitChars[(k % 10) + 1]

\* The pieces with the k-th literal marker exchanged for the marker numbered k.
ExpectedNumbered(parts) ==
    LET at == MarkPositions(parts, IsLiteralPiece)
    IN  Join([i \in 1..Len(parts) |->
                IF IsLiteralPiece(parts[i])
                THEN "<!-- PageBreak"
                     \o FiveDigits(CHOOSE k \in 1..Len(at) : at[k] = i) \o " -->"
                ELSE parts[i]])

\* C8: after _number_pagebreaks no literal marker is left, there are as many
\* numbered markers as there were literal ones, the k-th in document order
\* carries the number k in five digits, and the other text is unchanged.
C8_PageBreaksNumberedInOrder ==
    pc = "numbered"
    => LET n == Len(MarkPositions(content_parts, IsLiteralPiece))
           found == FindPageBreaks(document_content)
       IN  /\ ~Contains(document_content, "<!-- PageBreak -->")
           /\ Len(found) = n
           /\ \A k \in 1..n : found[k] = "PageBreak" \o FiveDigits(k)
           /\ document_content = ExpectedNumbered(content_parts)

\* A content with three literal markers and text between them was numbered.
C8_Witness ==
    /\ pc = "numbered"
    /\ Len(MarkPositions(content_parts, IsLiteralPiece)) = 3
    /\ Len(content_parts) = 4
    /\ FindPageBreaks(document_content)
          = <<"PageBreak00001", "PageBreak00002", "PageBreak00003">>

IsNumberedPiece(p) == \E n \in 1..MaxPageNumber : p = NumberedPageBreak(n)
PieceNumber(p) == CHOOSE n \in 1..MaxPageNumber : p = NumberedPageBreak(n)

\* Sum of the lengths of the pieces before position i.
RECURSIVE LengthBefore(_, _)
LengthBefore(parts, i) ==
    IF i <= 1 THEN 0 ELSE LengthBefore(parts, i - 1) + Len(parts[i - 1])

\* What the claim has _update_page return for a chunk made of `parts`.
ExpectedUpdate(parts, page) ==
    LET at == MarkPositions(parts, IsNumberedPiece)
    IN  IF Len(at) = 0 THEN page
        ELSE LET m == PieceNumber(parts[at[Len(at)]])
             IN  IF m + 1 > page THEN m + 1 ELSE page

\* C9: over any sequence of chunks current_page never decreases; a chunk whose
\* last marker has number m leaves max(current_page, m + 1), a chunk without
\* marker leaves current_page unchanged.
C9_CurrentPageNeverDecreases ==
    [][chunk_id' = chunk_id + 1
        => /\ current_page' >= current_page
           /\ current_page' = ExpectedUpdate(chunk_parts', current_page)]_vars

\* A chunk whose last marker lies more than a page behind the counter has been
\* processed after other chunks, and the counter stands beyond it.
C9_Witness ==
    /\ pc = "chunks"
    /\ chunk_id >= 2
    /\ Len(MarkPositions(chunk_parts, IsNumberedPiece)) >= 1
    /\ LET at == MarkPositions(chunk_parts, IsNumberedPiece)
       IN  PieceNumber(chunk_parts[at[Len(at)]]) + 1 < current_page

\* C10: a chunk whose first marker has number n at offset pos is given page
\* n + 1 when pos / len < 0.5 and page n when pos / len >= 0.5, the midpoint
\* included; a chunk without marker is given current_page.
C10_ChunkPageByMidpoint ==
    (pc = "chunks" /\ chunk_id >= 1)
    => LET at == MarkPositions(chunk_parts, IsNumberedPiece)
       IN  IF Len(at) = 0 THEN chunk_page = current_page
           ELSE LET n == PieceNumber(chunk_parts[at[1]])
                    pos == LengthBefore(chunk_parts, at[1]) + Len("<!-- ")
                IN  chunk_page = IF 2 * pos < Len(text_chunk) THEN n + 1 ELSE n

\* A chunk whose first marker starts exactly at the midpoint got the marker's
\* own number as page.
C10_Witness ==
    /\ pc = "chunks"
    /\ chunk_id >= 1
    /\ Len(MarkPositions(chunk_parts, IsNumberedPiece)) >= 1
    /\ LET at == MarkPositions(chunk_parts, IsNumberedPiece)
       IN  /\ 2 * (LengthBefore(chunk_parts, at[1]) + Len("<!-- ")) = Len(text_chunk)
           /\ chunk_page = PieceNumber(chunk_parts[at[1]])

\* The numbers of the markers of a list of chunks, in document order.
RECURSIVE MarkerNumbers(_)
MarkerNumbers(doc) ==
    IF doc = <<>> THEN <<>>
    ELSE LET parts == Head(doc)
             at == MarkPositions(parts, IsNumberedPiece)
         IN  [k \in 1..Len(at) |-> PieceNumber(parts[at[k]])]
             \o MarkerNumbers(Tail(doc))

MarkersIncrease(doc) ==
    LET numbers == MarkerNumbers(doc)
    IN  \A k \in 1..(Len(numbers) - 1) : numbers[k] < numbers[k + 1]

\* C29: every emitted chunk's content has an estimated token size of at most
\* max_chunk_size, also when table markers were replaced by the restored
\* table content after the size check and the truncation.
C29_EmittedChunkFitsBudget ==
    pc = "sized_emitted"
    => \A i \in 1..Len(chunks) :
          estimate_tokens(chunks[i].content) <= max_chunk_size

\* C28: in a document whose numbered markers increase in document order,
\* every emitted chunk's page is at least 1 and at most current_page as it
\* stands after that chunk's advance, and the pages of the emitted chunks
\* never decrease from one chunk to the next.
C28_PagesBoundedAndNonDecreasing ==
    (pc \in {"document_chunks", "document_emitted"} /\ MarkersIncrease(text_chunks))
    => /\ \A i \in 1..Len(chunks) :
             /\ chunks[i].page >= 1
             /\ i > 1 => chunks[i].page >= chunks[i - 1].page
       /\ Len(chunks) > 0 => chunks[Len(chunks)].page <= current_page

\* Two chunks of a document with increasing markers were emitted: the first
\* ends on a marker at its midpoint and got the marker's own number, the
\* second starts with a later marker and got that marker's successor, which
\* is the value of current_page.
C28_Witness ==
    /\ pc = "document_emitted"
    /\ MarkersIncrease(text_chunks)
    /\ Len(chunks) = 2
    /\ text_chunks[1] = <<Pad, NumberedPageBreak(1)>>
    /\ text_chunks[2] = <<NumberedPageBreak(2), NumberedPageBreak(3)>>
    /\ chunks[1].page = 1
    /\ chunks[2].page = 3
    /\ current_page = 4

-----------------------------------------------------------------------------
(* Properties of the chunk loop.                                           *)

-----------------------------------------------------------------------------
(* Properties of the grid reconstruction.                                  *)

Reconstructed == pc \in {"render", "rendered", "processed"}

\* The cells of the OCR table have non-negative indices inside the grid.
CellInBounds(cell) ==
    /\ cell.row >= 0 /\ cell.row < InferRows(ocr)
    /\ cell.col >= 0 /\ cell.col < InferCols(ocr)
AllCellsInBounds == \A k \in 1..Len(ocr.cells) : CellInBounds(ocr.cells[k])

\* Cell number k of the OCR table spans position (r, c).
Covers(k, r, c) ==
    LET cell == ocr.cells[k]
    IN  /\ cell.row <= r /\ r < cell.row + cell.rowspan
        /\ cell.col <= c /\ c < cell.col + cell.colspan

Positions == (0..(InferRows(ocr) - 1)) \X (0..(InferCols(ocr) - 1))

NoNegativeIndex ==
    \A k \in 1..Len(ocr.cells) : ocr.cells[k].row >= 0 /\ ocr.cells[k].col >= 0

\* The cell's text without the blanks around it, for the texts of the cells.
Trimmed(t) == IF t = " b " THEN "b" ELSE t

GridIsRectangle ==
    /\ DOMAIN grid = 0..(InferRows(ocr) - 1)
    /\ \A r \in DOMAIN grid : DOMAIN grid[r] = 0..(InferCols(ocr) - 1)

\* C12 as stated: for cells with non-negative in-bound indices the grid is
\* rows x cols, every position some cell spans holds the text of a cell
\* spanning it, and every other position holds the empty string.
C12_GridHoldsCellTexts ==
    (Reconstructed /\ AllCellsInBounds)
    => /\ GridIsRectangle
       /\ \A p \in Positions :
             IF \E k \in 1..Len(ocr.cells) : Covers(k, p[1], p[2])
             THEN \E k \in 1..Len(ocr.cells) :
                     Covers(k, p[1], p[2]) /\ grid[p[1]][p[2]] = ocr.cells[k].text
             ELSE grid[p[1]][p[2]] = ""

\* C12 amended: the position holds the text of a spanning cell with the
\* surrounding whitespace stripped.
C12_GridHoldsStrippedCellTexts ==
    (Reconstructed /\ AllCellsInBounds)
    => /\ GridIsRectangle
       /\ \A p \in Positions :
             IF \E k \in 1..Len(ocr.cells) : Covers(k, p[1], p[2])
             THEN \E k \in 1..Len(ocr.cells) :
                     /\ Covers(k, p[1], p[2])
                     /\ grid[p[1]][p[2]] = Trimmed(ocr.cells[k].text)
             ELSE grid[p[1]][p[2]] = ""

\* A single 2 x 2 cell at (0, 0) on a 3 x 3 grid fills exactly four positions.
C12_Witness ==
    /\ Reconstructed
    /\ ocr.rows = 3 /\ ocr.cols = 3
    /\ Len(ocr.cells) = 1
    /\ ocr.cells[1].row = 0 /\ ocr.cells[1].col = 0 /\ ocr.cells[1].rowspan = 2
    /\ ocr.cells[1].text = " b "
    /\ {p \in Positions : grid[p[1]][p[2]] = "b"}
          = {<<0, 0>>, <<0, 1>>, <<1, 0>>, <<1, 1>>}
    /\ \A p \in Positions : grid[p[1]][p[2]] \in {"b", ""}

\* C13: whatever the indices of the cells, negative or beyond the grid, the
\* reconstruction does not raise, and a position holds a text only if a cell
\* with that text spans it.
C13_MalformedCellsAreClipped ==
    /\ pc # "reconstruct_raised"
    /\ Reconstructed
       => \A p \in Positions :
             \/ grid[p[1]][p[2]] = ""
             \/ \E k \in 1..Len(ocr.cells) :
                   /\ Covers(k, p[1], p[2])
                   /\ grid[p[1]][p[2]] = Trimmed(ocr.cells[k].text)

\* Column c of row r is marked header: a cell of role header spans it.
MarkedHeader(r, c) ==
    \E k \in 1..Len(ocr.cells) :
        Covers(k, r, c) /\ ocr.cells[k].role \in {"header", "Header"}

MarkedCount(r) == Cardinality({c \in 0..(InferCols(ocr) - 1) : MarkedHeader(r, c)})

HeaderRowSet == {header_rows[k] : k \in 1..Len(header_rows)}

RowQualifies(r) == InferCols(ocr) > 0 /\ 2 * MarkedCount(r) >= InferCols(ocr)

LastCovering(r, c) ==
    CHOOSE k \in 1..Len(ocr.cells) :
        /\ Covers(k, r, c)
        /\ \A j \in 1..Len(ocr.cells) : Covers(j, r, c) => j <= k

\* C15 as stated: a position several cells span holds the text of the one
\* that comes last in the input list.
C15_LastWriterWins ==
    (Reconstructed /\ NoNegativeIndex)
    => \A p \in Positions :
          (\E k \in 1..Len(ocr.cells) : Covers(k, p[1], p[2]))
          => grid[p[1]][p[2]] = ocr.cells[LastCovering(p[1], p[2])].text

\* C15 amended: the position holds the last spanning cell's text with the
\* surrounding whitespace stripped.
C15_LastWriterWinsStripped ==
    (Reconstructed /\ NoNegativeIndex)
    => \A p \in Positions :
          (\E k \in 1..Len(ocr.cells) : Covers(k, p[1], p[2]))
          => grid[p[1]][p[2]] = Trimmed(ocr.cells[LastCovering(p[1], p[2])].text)

\* Two cells with different texts span (1, 0); the later one starts at a lower
\* row, and its text is there.
C15_Witness ==
    /\ Reconstructed
    /\ Len(ocr.cells) = 2
    /\ Covers(1, 1, 0) /\ Covers(2, 1, 0)
    /\ ocr.cells[2].row < ocr.cells[1].row
    /\ Trimmed(ocr.cells[1].text) # Trimmed(ocr.cells[2].text)
    /\ grid[1][0] = Trimmed(ocr.cells[2].text)

\* The non-empty values of column c in the header rows, top to bottom.
ExpectedPath(c) ==
    LET filled == {r \in HeaderRowSet : grid[r][c] # ""}
        Rank(r) == Cardinality({q \in filled : q <= r})
    IN  [k \in 1..Cardinality(filled) |-> grid[CHOOSE r \in filled : Rank(r) = k][c]]

\* The columns of row r some header-role cell spans, and those whose last
\* spanning cell has role header.
EverHeader(r) == {c \in 0..(InferCols(ocr) - 1) : MarkedHeader(r, c)}
OwnerHeader(r) ==
    {c \in 0..(InferCols(ocr) - 1) :
        /\ \E k \in 1..Len(ocr.cells) : Covers(k, r, c)
        /\ ocr.cells[LastCovering(r, c)].role \in {"header", "Header"}}

HalfOf(columns) == InferCols(ocr) > 0 /\ 2 * Cardinality(columns) >= InferCols(ocr)

\* C30: the header mark of a position is sticky: a position a header-role
\* cell has spanned counts as header for the header rows even when a later
\* data-role cell has overwritten its text; the header count of a row is the
\* number of its positions spanned by some header-role cell, not the number
\* whose last-written cell has role header.
C30_HeaderMarkIsSticky ==
    (Reconstructed /\ NoNegativeIndex)
    => \A r \in 0..(InferRows(ocr) - 1) :
          /\ OwnerHeader(r) \subseteq EverHeader(r)
          /\ HalfOf(EverHeader(r)) => r \in HeaderRowSet
          /\ r \in HeaderRowSet
             => \/ HalfOf(EverHeader(r))
                \/ /\ r = 0
                   /\ \A q \in 0..(InferRows(ocr) - 1) : ~HalfOf(EverHeader(q))

\* A header cell marked the one position of row 1 and a data cell then
\* overwrote its text: row 1 is the header row, although no position of it
\* is owned by a header cell, and the fallback to row 0 is not taken.
C30_Witness ==
    /\ Reconstructed /\ NoNegativeIndex
    /\ InferRows(ocr) = 2 /\ InferCols(ocr) = 1
    /\ Len(ocr.cells) = 2
    /\ ocr.cells[1].role = "header" /\ ocr.cells[2].role = "data"
    /\ grid[1][0] = "b"
    /\ OwnerHeader(1) = {}
    /\ EverHeader(1) = {0}
    /\ header_rows = <<1>>

\* C16: the header hierarchy has one entry per grid column, and the entry of
\* column c lists the non-empty values grid[r][c] of the header rows in
\* increasing row order, duplicates kept.
C16_HeaderHierarchyPerColumn ==
    Reconstructed
    => /\ Len(header_hierarchy) = InferCols(ocr)
       /\ \A c \in 0..(InferCols(ocr) - 1) : header_hierarchy[c + 1] = ExpectedPath(c)

\* Two header rows: one column lists the same value twice, the other skips an
\* empty value.
C16_Witness ==
    /\ Reconstructed
    /\ header_rows = <<0, 1>>
    /\ header_hierarchy = <<<<"a", "a">>, <<"a">>>>
    /\ grid[0][1] = ""

SampledRows ==
    LET last == CHOOSE r \in HeaderRowSet : \A q \in HeaderRowSet : q <= r
    IN  {r \in DOMAIN grid : last < r /\ r <= last + 5}

\* The values of the grids that are not empty, and those that are numbers.
NonEmptyValues == {"1,000", " 1 ", "a"}
NumericValues == {"1,000", " 1 "}

\* C18: one column entry per column of the last header row; a column is a
\* number exactly when some sampled value is non-empty and at least 80% of
\* the non-empty sampled values are numeric, a string otherwise; an empty
\* grid has no columns.
C18_SchemaTypesByEightyPercent ==
    pc = "schema_inferred"
    => IF DOMAIN grid = {} THEN schema = <<>>
       ELSE LET last == CHOOSE r \in HeaderRowSet : \A q \in HeaderRowSet : q <= r
            IN  /\ Len(schema) = Cardinality(DOMAIN grid[last])
                /\ \A c \in DOMAIN grid[last] :
                      LET filled == {r \in SampledRows : grid[r][c] \in NonEmptyValues}
                          numbers == {r \in filled : grid[r][c] \in NumericValues}
                      IN  /\ schema[c + 1].name = grid[last][c]
                          /\ schema[c + 1].type =
                                IF /\ filled # {}
                                   /\ 5 * Cardinality(numbers) >= 4 * Cardinality(filled)
                                THEN "number" ELSE "string"

\* Seven rows under header row 0: column 0 has 4 numbers among its 5 sampled
\* values and is a number, column 1 has 3 numbers among 4 non-empty ones and
\* is a string; the sixth row after the header is not sampled.
C18_Witness ==
    /\ pc = "schema_inferred"
    /\ header_rows = <<0>>
    /\ Cardinality(DOMAIN grid) = 7
    /\ Cardinality({r \in SampledRows : grid[r][0] \in NumericValues}) = 4
    /\ Cardinality({r \in SampledRows : grid[r][0] \in NonEmptyValues}) = 5
    /\ Cardinality({r \in SampledRows : grid[r][1] \in NumericValues}) = 3
    /\ Cardinality({r \in SampledRows : grid[r][1] \in NonEmptyValues}) = 4
    /\ grid[6][0] = "a"
    /\ schema[1].type = "number"
    /\ schema[2].type = "string"

-----------------------------------------------------------------------------
(* Properties of the complexity heuristic.                                 *)

\* The table is borderless as the claim has it: no border attribute, or a
\* style without 'border' or with 'none'.
StatedBorderless ==
    \/ html_parts.border = ""
    \/ html_parts.style \notin {" style='border:1px solid'", " style='border:none'"}
    \/ html_parts.style = " style='border:none'"

\* C19: _is_table_complex returns true exactly when an element has a rowspan
\* or colspan attribute, or the table is borderless, or the thead has more
\* than one row, or there are more than 10 th cells.
C19_ComplexExactlyWhenAFeatureHolds ==
    pc = "complexity_known"
    => (is_complex <=> \/ html_parts.span # ""
                       \/ StatedBorderless
                       \/ html_parts.thead_rows > 1
                       \/ html_parts.th_count > 10)

-----------------------------------------------------------------------------
(* Properties of the table understanding.                                  *)

\* C20: whichever steps fail for whichever tables, _run_table_understanding
\* raises nothing from the per-table steps and returns one entry per input
\* item, in input order, with name, url, html_table_content and table_index
\* unchanged; tables after a failed one are still processed.
C20_FailuresDoNotAbortTheBatch ==
    /\ pc # "understand_raised"
    /\ pc \in {"understand", "understood"}
       => /\ Len(enriched) <= Len(table_mapping)
          /\ Len(failures) = Len(enriched)
          /\ \A i \in 1..Len(enriched) :
                /\ enriched[i].name = table_mapping[i].name
                /\ enriched[i].url = table_mapping[i].url
                /\ enriched[i].html_table_content = table_mapping[i].html_table_content
                /\ enriched[i].table_index = table_mapping[i].table_index
    /\ pc = "understood" => Len(enriched) = Len(table_mapping)

\* An upload failed for the first table, and the second table was enriched
\* all the same.
C20_Witness ==
    /\ pc = "understood"
    /\ Len(table_mapping) = 2
    /\ failures = <<"md_upload", "none">>
    /\ "normalized_md" \notin DOMAIN enriched[1]
    /\ "normalized_md" \in DOMAIN enriched[2]
    /\ enriched[2].normalized_md = "| a |\n|---|\n| b |"

\* C21: the item appended for a table whose enrichment failed at any step, or
\* for a table judged not complex, is the input item with no field added.
C21_FailedItemIsUnmodified ==
    pc \in {"understand", "understood"}
    => \A i \in 1..Len(enriched) :
          failures[i] # "none" => enriched[i] = table_mapping[i]

\* Where the fragment of item i stands in documentContent: its first
\* occurrence after the fragment of item i - 1 (0 when there is none); and the
\* position just after it.
RECURSIVE FragmentStart(_), FragmentEnd(_)
FragmentStart(i) ==
    Find(document.documentContent, table_html_table_url_map[i].html_table_content,
         FragmentEnd(i - 1))
FragmentEnd(i) ==
    IF i = 0 THEN 1
    ELSE FragmentStart(i) + Len(table_html_table_url_map[i].html_table_content)

\* C22: when the number of <table> fragments equals the number of supplied
\* entries, the mapping returned is their positional zip: item i has the name
\* and url of the i-th entry, table_index i (from 0) and as html_table_content
\* the i-th fragment in document order, that is the text from the first
\* "<table>" after the previous fragment up to the first "</table>" after it.
C22_MappingIsPositionalZip ==
    (MapReturned /\ Len(FindHtmlTables(document.documentContent)) = SuppliedCount)
    => /\ Len(table_html_table_url_map) = SuppliedCount
       /\ \A i \in 1..Len(table_html_table_url_map) :
             LET item == table_html_table_url_map[i]
                 html == item.html_table_content
             IN  /\ item.name = document.documentTables[i].name
                 /\ item.url = document.documentTables[i].url
                 /\ item.table_index = i - 1
                 /\ FragmentStart(i) # 0
                 /\ FragmentStart(i)
                       = Find(document.documentContent, "<table>", FragmentEnd(i - 1))
                 /\ StartsAt(html, "<table>", 1)
                 /\ Find(html, "</table>", 8) = Len(html) - 7

\* Two different fragments were zipped with two entries.
C22_Witness ==
    /\ MapReturned
    /\ Len(table_html_table_url_map) = 2
    /\ table_html_table_url_map[1].html_table_content = "<table>a</table>"
    /\ table_html_table_url_map[2].html_table_content = "<table></table>"
    /\ table_html_table_url_map[1].name # table_html_table_url_map[2].name

-----------------------------------------------------------------------------
(* Properties of the replacement loop.                                     *)

\* sub stands somewhere in s
OccursIn(sub, s) ==
    \E i \in 1..Len(s) :
        i + Len(sub) - 1 <= Len(s) /\ SubSeq(s, i, i + Len(sub) - 1) = sub

\* C23: a pass of the replacement loop for an item whose fragment does not
\* occur in the current text leaves the text as it is and goes on to the next
\* item; an item whose fragment occurs gets its marker; the function returns
\* only after every item was visited, and never raises.
C23_MissingFragmentIsSkipped ==
    /\ [](pc = "replaced" => replace_index = 0 /\ document.content = current_content)
    /\ [][(pc = "replace_loop" /\ replace_index > 0)
          => LET item == table_html_table_url_map[replace_index]
             IN  /\ pc' = "replace_loop"
                 /\ replace_index' = replace_index - 1
                 /\ IF OccursIn(item.html_table_content, current_content)
                    THEN OccursIn(MarkerText(item.url), current_content')
                    ELSE current_content' = current_content]_vars

\* The fragment of the second item was not in the text, no marker stands for
\* it, and the first item was replaced after it.
C23_Witness ==
    /\ pc = "replaced"
    /\ Len(table_html_table_url_map) = 2
    /\ ~OccursIn(table_html_table_url_map[2].html_table_content,
                 document.documentContent)
    /\ ~OccursIn(MarkerText(table_html_table_url_map[2].url), document.content)
    /\ OccursIn(MarkerText(table_html_table_url_map[1].url), document.content)

-----------------------------------------------------------------------------
(* Properties of the restored content.                                     *)

\* What the claims say a table's marker is restored to.
PreferredContent(item) ==
    IF "normalized_md" \in DOMAIN item /\ item.normalized_md # ""
    THEN item.normalized_md
    ELSE item.html_table_content

\* The text with the marker of every item from the k-th on put back.
RECURSIVE RestoredBy(_, _, _)
RestoredBy(s, items, k) ==
    IF k > Len(items) THEN s
    ELSE RestoredBy(ReplaceAll(s, MarkerText(items[k].url), PreferredContent(items[k])),
                    items, k + 1)

\* C24: in every emitted chunk each marker of a table url stands restored to
\* the table's normalized markdown when its mapping item has a non-empty
\* normalized_md, and to the item's raw HTML fragment otherwise.
C24_RestorePrefersNormalizedMarkdown ==
    pc \in {"emit", "emitted"}
    => \A i \in 1..Len(chunks) :
          chunks[i].content
             = RestoredBy(text_chunks[i].content, table_html_table_url_map, 1)

\* A chunk with the markers of both tables, the first with a markdown and the
\* second enriched with an empty one: markdown and HTML stand side by side.
C24_Witness ==
    /\ pc = "emitted"
    /\ "normalized_md" \in DOMAIN table_html_table_url_map[1]
    /\ "normalized_md" \in DOMAIN table_html_table_url_map[2]
    /\ table_html_table_url_map[1].normalized_md = "| a |"
    /\ table_html_table_url_map[2].normalized_md = ""
    /\ \E i \in 1..Len(chunks) : chunks[i].content = "<table>2</table>| a |"

-----------------------------------------------------------------------------
(* Properties of the summary.                                              *)

\* C25: a completion call that raises is never fatal: _summarize then gives
\* the empty string and process still returns, with the grid, the markdown,
\* the CSV, the schema and the header hierarchy it built; for an empty markdown
\* the completion is not called at all.
C25_SummaryFailureIsNotFatal ==
    /\ [][pc = "rendered" => pc' = "processed"]_vars
    /\ [](pc = "processed"
          => /\ completion = "raised" => summary = ""
             /\ completion = "not_called" <=> markdown = ""
             /\ completion = "not_called" => summary = ""
             /\ Len(header_hierarchy) = InferCols(ocr)
             /\ GridIsRectangle
             /\ Len(schema) = (IF InferRows(ocr) = 0 THEN 0 ELSE InferCols(ocr))
             /\ csv_bytes = "" <=> InferRows(ocr) = 0)

\* The completion call raised for a table of two columns, and process returned
\* its markdown, CSV and schema with an empty summary.
C25_Witness ==
    /\ pc = "processed"
    /\ completion = "raised"
    /\ summary = ""
    /\ markdown = "| a | a |\n|---|---|\n| b |  |"
    /\ csv_bytes = "a,a\r\na,a\r\nb,\r\n"
    /\ Len(schema) = 2

-----------------------------------------------------------------------------
(* Properties of the retried analysis.                                     *)

\* C26: the layout analysis is called at most `retries` times; the first call
\* that succeeds ends the attempts and its result is returned; the failure is
\* raised exactly when `retries` calls were made (at least one) and all failed.
C26_BoundedRetries ==
    /\ Len(attempts) <= retries
    /\ \A k \in 1..(Len(attempts) - 1) : attempts[k].raised
    /\ pc = "analyze" => \A k \in 1..Len(attempts) : attempts[k].raised
    /\ (pc = "analyzed" /\ attempts # <<>>)
       => /\ ~attempts[Len(attempts)].raised
          /\ ~analysis.raised
          /\ analysis.value = attempts[Len(attempts)].value
    /\ pc = "analyze_raised"
       <=> /\ retries >= 1
           /\ Len(attempts) = retries
           /\ \A k \in 1..retries : attempts[k].raised
    /\ pc = "analyze_raised"
       => analysis.raised /\ analysis.value = attempts[retries].value

\* With the default of three attempts: two calls failed, the third succeeded
\* and its result was returned.
C26_Witness ==
    /\ pc = "analyzed"
    /\ retries = 3
    /\ Len(attempts) = 3
    /\ attempts[1].raised /\ attempts[2].raised
    /\ analysis = [raised |-> FALSE, value |-> <<"content with tables", <<>>>>]

-----------------------------------------------------------------------------
(* Properties of the storage operations.                                   *)

\* C27: download_blob and upload_blob make at most two attempts; when the
\* first fails and the second succeeds the operation returns its normal
\* result, the bytes read respectively the url of the uploaded blob; when both
\* fail the operation raises instead of returning a value.
C27_StorageRetriesOnceThenEscalates ==
    /\ Len(blob_attempts) <= 2
    /\ (pc \in {"blob_returned", "blob_raised"} /\ Len(blob_attempts) = 2
        /\ ~blob_attempts[2].raised)
       => /\ ~blob_result.raised
          /\ blob_result.value
                = IF blob_call.op = "download" THEN blob_attempts[2].value
                  ELSE "https://s/" \o (IF blob_call.file_url = "https://s/docs/f.pdf"
                                        THEN "docs" ELSE "in")
                       \o "-tables/" \o blob_call.blob_name
    /\ (pc \in {"blob_returned", "blob_raised"} /\ Len(blob_attempts) = 2
        /\ blob_attempts[2].raised)
       => blob_result.raised

====
